---- MODULE Spec2Model ----
(***************************************************************************)
(* A block-structured file system over a paged, growable byte store        *)
(* (ic-box/box).  The state is the FileSystem value (bitmap, root_cluster, *)
(* memory), one caller-held Entry, and the one stream handle that Rust's   *)
(* borrow rules allow to be alive at a time (a ClusterWriter/ClusterReader *)
(* over the root cluster, or an EntryWriter/EntryReader over the entry).   *)
(* Bytes are integers 0..255, Vec<u8> is a sequence, the heap pages are a  *)
(* page count plus the finite map of the non-zero bytes.                   *)
(* The directory tree is not a variable: it is what the Directory and      *)
(* Entry decoders read back from the stored bytes.                         *)
(***************************************************************************)
EXTENDS Integers, Sequences, FiniteSets, TLC

VARIABLES
    mem,            \* FileSystem.memory: HeapMemory [pages, data]
    bitmap,         \* FileSystem.bitmap: Bitmap.map, a Vec<u8>
    root_cluster,   \* FileSystem.root_cluster: Cluster.blocks (block indices)
    entry,          \* an Entry held by the caller [kind, size, name, cluster]
    h,              \* the live stream handle [kind, cbi, off, offset]
    hand,           \* history: bits occupied by hand through Bitmap::occupy
    shadow,         \* history: logical offset -> byte last written, per stream
    last,           \* history: the last call and what it returned
    ops             \* number of calls the behaviour may still make

vars == <<mem, bitmap, root_cluster, entry, h, hand, shadow, last, ops>>

-----------------------------------------------------------------------------
(* Program constants *)

Block_SIZE == 512
HEAP_PAGE_SIZE == 1024
MAX_PAGES == 256
MAX_SIZE == HEAP_PAGE_SIZE * MAX_PAGES

(* Bounds of the model *)

MaxOps == 6          \* calls per behaviour of Spec
MaxClusterOps == 4   \* calls per behaviour of SpecCluster
MaxSeekBlock == 1    \* seeks land in logical blocks 0..MaxSeekBlock
MaxInitBlock == 3    \* hand-built clusters use block indices 0..MaxInitBlock
MaxInitLen == 2      \* hand-built clusters have at most this many blocks
MaxDirOps == 3       \* calls per behaviour of SpecDir
MaxExtraLen == 1     \* the long file content is this much longer than a block
MaxDepth == 5        \* levels of directories walked down from the root
MaxBitmapOps == 3    \* calls per behaviour of SpecBitmap
MaxSerdeOps == 2     \* calls per behaviour of SpecSerde
MaxSerdeBlock == 5   \* enumerated clusters use block indices 0..MaxSerdeBlock
MaxSerdeLen == 4     \* enumerated clusters have at most this many blocks
MaxMemoryOps == 2    \* calls per behaviour of SpecMemory
MaxFileOps == 2      \* calls per behaviour of SpecFile
MaxEntriesOps == 2   \* calls per behaviour of SpecEntries
MaxEntries == 3      \* entries of the directory SpecEntries starts from
MaxEntrySerdeOps == 2 \* calls per behaviour of SpecEntrySerde
MaxOpenOps == 3      \* calls per behaviour of SpecOpen
MinStableRuns == 960 \* SpecStable: the root cluster has at least this many runs
MaxStableRuns == 1040 \* SpecStable: and at most this many

Min(a, b) == IF a < b THEN a ELSE b
Max(a, b) == IF a > b THEN a ELSE b

\* `LET r == e IN F(r)`, with e written and evaluated once
Let(e, F(_)) == CHOOSE v \in {F(r) : r \in {e}} : TRUE

-----------------------------------------------------------------------------
(* heap_memory.rs, memory.rs *)

Byte(m, o) == IF o \in DOMAIN m.data THEN m.data[o] ELSE 0

\* data with buf copied to offset.. ; zero bytes are not kept in the map
Store(data, offset, buf) ==
    LET W == {offset + i - 1 : i \in 1..Len(buf)}
        NZ == {o \in W : buf[o - offset + 1] # 0}
        D == (DOMAIN data \ W) \cup NZ
    IN [o \in D |-> IF o \in W THEN buf[o - offset + 1] ELSE data[o]]

HeapMemory_default == [pages |-> 0, data |-> <<>>]

Memory_len(m) == m.pages * HEAP_PAGE_SIZE

HeapMemory_grow(m, num_pages) == [m EXCEPT !.pages = @ + num_pages]

HeapMemory_read(m, offset, n) ==
    LET page_index == offset \div HEAP_PAGE_SIZE
        page_offset == offset % HEAP_PAGE_SIZE
        len_to_read == Min(HEAP_PAGE_SIZE - page_offset, n)
    IN IF page_index >= m.pages THEN <<>>
       ELSE [i \in 1..len_to_read |-> Byte(m, offset + i - 1)]

HeapMemory_write(m, offset, buf) ==
    LET page_index == offset \div HEAP_PAGE_SIZE
        page_offset == offset % HEAP_PAGE_SIZE
        len_to_write == Min(HEAP_PAGE_SIZE - page_offset, Len(buf))
    IN IF page_index >= m.pages THEN [mem |-> m, n |-> 0]
       ELSE [mem |-> [m EXCEPT !.data = Store(@, offset, SubSeq(buf, 1, len_to_write))],
             n |-> len_to_write]

\* one MemoryReader::read of n bytes with the cursor at offset: the bytes read
MemoryReader_read(m, offset, n) ==
    LET required_len == offset + n
        current_len == Memory_len(m)
        missing_len == required_len - current_len
    IN IF required_len > current_len
       THEN IF missing_len > n THEN <<>>
            ELSE HeapMemory_read(m, offset, n - missing_len)
       ELSE HeapMemory_read(m, offset, n)

\* one MemoryWriter::write of buf with the cursor at offset: [mem, n]
MemoryWriter_write(m, offset, buf) ==
    LET required_len == offset + Len(buf)
        current_len == Memory_len(m)
        missing_len == required_len - current_len
        missing_pages == (missing_len \div HEAP_PAGE_SIZE)
                         + (IF missing_len % HEAP_PAGE_SIZE > 0 THEN 1 ELSE 0)
        grown == IF required_len > current_len
                 THEN HeapMemory_grow(m, missing_pages) ELSE m
    IN HeapMemory_write(grown, offset, buf)

\* std::io::Write::write_all over a MemoryWriter: [mem, offset, ok]
RECURSIVE MemoryWriter_write_all(_, _, _)
MemoryWriter_write_all(m, offset, buf) ==
    IF buf = <<>> THEN [mem |-> m, offset |-> offset, ok |-> TRUE]
    ELSE Let(MemoryWriter_write(m, offset, buf), LAMBDA r :
            IF r.n = 0 THEN [mem |-> r.mem, offset |-> offset, ok |-> FALSE]
            ELSE MemoryWriter_write_all(r.mem, offset + r.n,
                                        SubSeq(buf, r.n + 1, Len(buf))))

\* std::io::Read::read_exact over a MemoryReader: [ok, data, offset]
RECURSIVE MemoryReader_read_exact(_, _, _)
MemoryReader_read_exact(m, offset, n) ==
    IF n = 0 THEN [ok |-> TRUE, data |-> <<>>, offset |-> offset]
    ELSE Let(MemoryReader_read(m, offset, n), LAMBDA got :
            IF got = <<>> THEN [ok |-> FALSE, data |-> <<>>, offset |-> offset]
            ELSE Let(MemoryReader_read_exact(m, offset + Len(got), n - Len(got)),
                     LAMBDA rest : [ok |-> rest.ok, data |-> got \o rest.data,
                                    offset |-> rest.offset]))

-----------------------------------------------------------------------------
(* bitmap.rs *)

Pow2(k) == 2 ^ k

Bitmap_len_for_memory_impl == (MAX_SIZE \div Block_SIZE) \div 8

Bitmap_new == [i \in 1..Bitmap_len_for_memory_impl |-> 0]

\* impl Index<usize> for Bitmap: TRUE iff the bit is Occupied
Bitmap_index(map, index) ==
    (map[index \div 8 + 1] \div Pow2(index % 8)) % 2 = 1

Bitmap_occupy(map, index) ==
    IF Bitmap_index(map, index) THEN map
    ELSE [map EXCEPT ![index \div 8 + 1] = @ + Pow2(index % 8)]

Bitmap_free(map, index) ==
    IF Bitmap_index(map, index)
    THEN [map EXCEPT ![index \div 8 + 1] = @ - Pow2(index % 8)]
    ELSE map

\* (faulty variant) the iterator moves to the next byte after an Occupied
\* state instead of to the next bit
RECURSIVE BitStateIterator_scan_skip(_, _)
BitStateIterator_scan_skip(map, i) ==
    IF i \div 8 >= Len(map) THEN -1
    ELSE IF ~Bitmap_index(map, i) THEN i
    ELSE BitStateIterator_scan_skip(map, 8 * (i \div 8 + 1))

\* BitStateIterator::next while byte_offset stays the same: the index of the
\* first Free state of that byte at or after bit_offset, or -1 when bit_offset
\* wraps to 0
RECURSIVE BitStateIterator_scan_byte(_, _, _)
BitStateIterator_scan_byte(map, byte_offset, bit_offset) ==
    IF bit_offset >= 8 THEN -1
    ELSE IF (map[byte_offset + 1] \div Pow2(bit_offset)) % 2 = 0
         THEN 8 * byte_offset + bit_offset
    ELSE BitStateIterator_scan_byte(map, byte_offset, bit_offset + 1)

\* BitStateIterator::next driven by occupy_next's loop: the index of the first
\* Free state at or after i, or -1 when the iterator ends
RECURSIVE BitStateIterator_scan(_, _)
BitStateIterator_scan(map, i) ==
    IF i \div 8 >= Len(map) THEN -1
    ELSE LET r == BitStateIterator_scan_byte(map, i \div 8, i % 8)
         IN IF r # -1 THEN r
            ELSE BitStateIterator_scan(map, 8 * (i \div 8 + 1))

\* (faulty variant) next-fit: the scan starts after the highest occupied bit
Bitmap_occupy_next_fit(map) ==
    LET occ == {i \in 0..(8 * Len(map) - 1) : Bitmap_index(map, i)}
        from == IF occ = {} THEN 0
                ELSE 1 + CHOOSE i \in occ : \A j \in occ : j <= i
    IN Let(BitStateIterator_scan(map, from), LAMBDA i :
            IF i = -1 THEN [map |-> map, index |-> -1]
            ELSE [map |-> Bitmap_occupy(map, i), index |-> i])

\* (faulty variant) the bit found is returned but not marked
Bitmap_occupy_next_nomark(map) ==
    [map |-> map, index |-> BitStateIterator_scan(map, 0)]

\* Bitmap::occupy_next: [map, index], index = -1 for None
Bitmap_occupy_next(map) ==
    Let(BitStateIterator_scan(map, 0), LAMBDA i :
        IF i = -1 THEN [map |-> map, index |-> -1]
        ELSE [map |-> Bitmap_occupy(map, i), index |-> i])

\* Bitmap::occupy for every index of S (a `for` loop of occupy calls)
RECURSIVE OccupyAll(_, _)
OccupyAll(map, S) ==
    IF S = {} THEN map
    ELSE LET i == CHOOSE x \in S : TRUE
         IN OccupyAll(Bitmap_occupy(map, i), S \ {i})

-----------------------------------------------------------------------------
(* cluster.rs *)

\* Cluster::blocks, as a set
Range(s) == {s[i] : i \in DOMAIN s}


Cluster_default == <<>>

\* Cluster::len
Cluster_len(blocks) == Block_SIZE * Len(blocks)

\* the new_offset of ClusterReader::seek / ClusterWriter::seek;
\* pos = [whence, n] is an io::SeekFrom
Cluster_seek_offset(blocks, cbi, off, pos) ==
    CASE pos.whence = "Start" -> pos.n
      [] pos.whence = "Current" -> (cbi * Block_SIZE + off) + pos.n
      [] pos.whence = "End" -> Cluster_len(blocks) + pos.n

\* (faulty variant) when the bitmap runs out, the blocks the loop had taken
\* are given back
RECURSIVE ClusterWriter_allocate_rollback(_, _, _)
ClusterWriter_allocate_rollback(map, blocks, cbi) ==
    IF cbi < Len(blocks) THEN [bitmap |-> map, blocks |-> blocks, ok |-> TRUE]
    ELSE Let(Bitmap_occupy_next(map), LAMBDA r :
            IF r.index = -1 THEN [bitmap |-> map, blocks |-> blocks, ok |-> FALSE]
            ELSE Let(ClusterWriter_allocate_rollback(r.map, Append(blocks, r.index), cbi),
                     LAMBDA g :
                        IF g.ok THEN g
                        ELSE [bitmap |-> map, blocks |-> blocks, ok |-> FALSE]))

\* (faulty variant) the block found is appended, its bit left as it was
RECURSIVE ClusterWriter_allocate_unmarked(_, _, _)
ClusterWriter_allocate_unmarked(map, blocks, cbi) ==
    IF cbi < Len(blocks) THEN [bitmap |-> map, blocks |-> blocks, ok |-> TRUE]
    ELSE Let(Bitmap_occupy_next(map), LAMBDA r :
            IF r.index = -1 THEN [bitmap |-> map, blocks |-> blocks, ok |-> FALSE]
            ELSE ClusterWriter_allocate_unmarked(map, Append(blocks, r.index), cbi))

\* (faulty variant) a cluster that has blocks grows by the block after its
\* last, whether or not that block is free
RECURSIVE ClusterWriter_allocate_contiguous(_, _, _)
ClusterWriter_allocate_contiguous(map, blocks, cbi) ==
    IF cbi < Len(blocks) THEN [bitmap |-> map, blocks |-> blocks, ok |-> TRUE]
    ELSE IF blocks # <<>> /\ blocks[Len(blocks)] + 1 < 8 * Len(map)
    THEN ClusterWriter_allocate_contiguous(
            Bitmap_occupy(map, blocks[Len(blocks)] + 1),
            Append(blocks, blocks[Len(blocks)] + 1), cbi)
    ELSE Let(Bitmap_occupy_next(map), LAMBDA r :
            IF r.index = -1 THEN [bitmap |-> map, blocks |-> blocks, ok |-> FALSE]
            ELSE ClusterWriter_allocate_contiguous(r.map, Append(blocks, r.index), cbi))

\* (faulty variant) the loop runs until there is a block after the cursor's
RECURSIVE ClusterWriter_allocate_ahead(_, _, _)
ClusterWriter_allocate_ahead(map, blocks, cbi) ==
    IF cbi + 1 < Len(blocks) THEN [bitmap |-> map, blocks |-> blocks, ok |-> TRUE]
    ELSE Let(Bitmap_occupy_next(map), LAMBDA r :
            IF r.index = -1 THEN [bitmap |-> map, blocks |-> blocks, ok |-> FALSE]
            ELSE ClusterWriter_allocate_ahead(r.map, Append(blocks, r.index), cbi))

\* the `while` loop at the head of ClusterWriter::write: [bitmap, blocks, ok]
RECURSIVE ClusterWriter_allocate(_, _, _)
ClusterWriter_allocate(map, blocks, cbi) ==
    IF cbi < Len(blocks) THEN [bitmap |-> map, blocks |-> blocks, ok |-> TRUE]
    ELSE Let(Bitmap_occupy_next(map), LAMBDA r :
            IF r.index = -1 THEN [bitmap |-> map, blocks |-> blocks, ok |-> FALSE]
            ELSE ClusterWriter_allocate(r.map, Append(blocks, r.index), cbi))

\* (faulty variant) the cluster's block list is ignored: block i of the stream is
\* taken to be block i of the store
Cluster_physical_identity(blocks, cbi, off) == cbi * Block_SIZE + off

\* the physical offset the stream cursor (cbi, off) is seeked to
Cluster_physical(blocks, cbi, off) == blocks[cbi + 1] * Block_SIZE + off

\* (faulty variant) the whole buffer goes to memory, past the block's end
ClusterWriter_write_spill(w, buf) ==
    Let(ClusterWriter_allocate(w.bitmap, w.blocks, w.cbi), LAMBDA g :
        IF ~g.ok
        THEN [w |-> [w EXCEPT !.bitmap = g.bitmap, !.blocks = g.blocks],
              ok |-> FALSE, n |-> 0, err |-> "OutOfMemory"]
        ELSE Let(MemoryWriter_write(w.mem, Cluster_physical(g.blocks, w.cbi, w.off), buf),
                 LAMBDA r :
                    LET block_offset == w.off + r.n
                        roll == block_offset >= Block_SIZE
                    IN [w |-> [bitmap |-> g.bitmap, mem |-> r.mem, blocks |-> g.blocks,
                               cbi |-> IF roll THEN w.cbi + 1 ELSE w.cbi,
                               off |-> IF roll THEN 0 ELSE block_offset],
                        ok |-> TRUE, n |-> r.n, err |-> ""]))

\* (faulty variant) the cursor stays in its block when block_offset reaches
\* Block::SIZE
ClusterWriter_write_noroll(w, buf) ==
    Let(ClusterWriter_allocate(w.bitmap, w.blocks, w.cbi), LAMBDA g :
        IF ~g.ok
        THEN [w |-> [w EXCEPT !.bitmap = g.bitmap, !.blocks = g.blocks],
              ok |-> FALSE, n |-> 0, err |-> "OutOfMemory"]
        ELSE Let(MemoryWriter_write(w.mem, Cluster_physical(g.blocks, w.cbi, w.off),
                                    SubSeq(buf, 1, Min(Len(buf), Block_SIZE - w.off))),
                 LAMBDA r :
                    [w |-> [bitmap |-> g.bitmap, mem |-> r.mem, blocks |-> g.blocks,
                            cbi |-> w.cbi, off |-> w.off + r.n],
                     ok |-> TRUE, n |-> r.n, err |-> ""]))

\* one ClusterWriter::write; w = [bitmap, mem, blocks, cbi, off] is the writer
\* with what it borrows; result [w, ok, n, err], ok = FALSE is Err(OutOfMemory)
ClusterWriter_write(w, buf) ==
    Let(ClusterWriter_allocate(w.bitmap, w.blocks, w.cbi), LAMBDA g :
        IF ~g.ok
        THEN [w |-> [w EXCEPT !.bitmap = g.bitmap, !.blocks = g.blocks],
              ok |-> FALSE, n |-> 0, err |-> "OutOfMemory"]
        ELSE Let(MemoryWriter_write(w.mem, Cluster_physical(g.blocks, w.cbi, w.off),
                                    SubSeq(buf, 1, Min(Len(buf), Block_SIZE - w.off))),
                 LAMBDA r :
                    LET block_offset == w.off + r.n
                        roll == block_offset >= Block_SIZE
                    IN [w |-> [bitmap |-> g.bitmap, mem |-> r.mem, blocks |-> g.blocks,
                               cbi |-> IF roll THEN w.cbi + 1 ELSE w.cbi,
                               off |-> IF roll THEN 0 ELSE block_offset],
                        ok |-> TRUE, n |-> r.n, err |-> ""]))

\* std::io::Write::write_all over a ClusterWriter: [w, ok, n, err], n bytes
\* stored; ok = FALSE is the error of a write call or WriteZero
RECURSIVE ClusterWriter_write_all(_, _)
ClusterWriter_write_all(w, buf) ==
    IF buf = <<>> THEN [w |-> w, ok |-> TRUE, n |-> 0, err |-> ""]
    ELSE Let(ClusterWriter_write(w, buf), LAMBDA r :
            IF ~r.ok \/ r.n = 0
            THEN [w |-> r.w, ok |-> FALSE, n |-> 0,
                  err |-> IF r.ok THEN "WriteZero" ELSE r.err]
            ELSE Let(ClusterWriter_write_all(r.w, SubSeq(buf, r.n + 1, Len(buf))),
                     LAMBDA rest : [w |-> rest.w, ok |-> rest.ok, n |-> r.n + rest.n,
                                    err |-> rest.err]))

\* one ClusterReader::read of n bytes: [data, cbi, off]
ClusterReader_read(m, blocks, cbi, off, n) ==
    IF cbi >= Len(blocks) THEN [data |-> <<>>, cbi |-> cbi, off |-> off]
    ELSE Let(MemoryReader_read(m, Cluster_physical(blocks, cbi, off),
                               Min(n, Block_SIZE - off)),
             LAMBDA got :
                LET block_offset == off + Len(got)
                    roll == block_offset >= Block_SIZE
                IN [data |-> got,
                    cbi |-> IF roll THEN cbi + 1 ELSE cbi,
                    off |-> IF roll THEN 0 ELSE block_offset])

\* std::io::Read::read_exact over a ClusterReader: [ok, data, cbi, off]
RECURSIVE ClusterReader_read_exact(_, _, _, _, _)
ClusterReader_read_exact(m, blocks, cbi, off, n) ==
    IF n = 0 THEN [ok |-> TRUE, data |-> <<>>, cbi |-> cbi, off |-> off]
    ELSE Let(ClusterReader_read(m, blocks, cbi, off, n), LAMBDA r :
            IF r.data = <<>> THEN [ok |-> FALSE, data |-> <<>>, cbi |-> cbi, off |-> off]
            ELSE Let(ClusterReader_read_exact(m, blocks, r.cbi, r.off, n - Len(r.data)),
                     LAMBDA rest : [ok |-> rest.ok, data |-> r.data \o rest.data,
                                    cbi |-> rest.cbi, off |-> rest.off]))

-----------------------------------------------------------------------------
(* directory.rs: the entry's stream views *)

\* the read_len of EntryReader::read.  `entry.size - offset` is a usize
\* subtraction: with offset > size it panics in a build with overflow checks
\* (-1 here) and wraps to a huge value in one without (so the min is n)
EntryReader_read_len(size, offset, n, build) ==
    IF offset <= size THEN Min(n, size - offset)
    ELSE IF build = "release" THEN n ELSE -1

\* one EntryReader::read of n bytes over the entry's ClusterReader;
\* rd = [cbi, off, offset]; result [status, data, rd], status "panic" or "ok"
EntryReader_read(m, e, rd, n, build) ==
    LET read_len == EntryReader_read_len(e.size, rd.offset, n, build)
    IN IF read_len = -1 THEN [status |-> "panic", data |-> <<>>, rd |-> rd]
       ELSE IF read_len = 0 THEN [status |-> "ok", data |-> <<>>, rd |-> rd]
       ELSE Let(ClusterReader_read(m, e.cluster, rd.cbi, rd.off, read_len), LAMBDA r :
                [status |-> "ok", data |-> r.data,
                 rd |-> [cbi |-> r.cbi, off |-> r.off,
                         offset |-> rd.offset + Len(r.data)]])

\* (faulty variant) the size follows the bytes requested, not the bytes written
EntryWriter_write_requested(w, size, offset, buf) ==
    Let(ClusterWriter_write(w, buf), LAMBDA r :
        IF ~r.ok THEN [w |-> r.w, size |-> size, offset |-> offset, ok |-> FALSE, n |-> 0]
        ELSE [w |-> r.w, size |-> Max(size, offset + Len(buf)), offset |-> offset + r.n,
              ok |-> TRUE, n |-> r.n])

\* (faulty variant) the size is set to the offset after the write, without the max
EntryWriter_write_nomax(w, size, offset, buf) ==
    Let(ClusterWriter_write(w, buf), LAMBDA r :
        IF ~r.ok THEN [w |-> r.w, size |-> size, offset |-> offset, ok |-> FALSE, n |-> 0]
        ELSE [w |-> r.w, size |-> offset + r.n, offset |-> offset + r.n,
              ok |-> TRUE, n |-> r.n])

\* one EntryWriter::write; w is the inner ClusterWriter with what it borrows,
\* size is *entry_size, offset the EntryWriter's; result [w, size, offset, ok, n]
EntryWriter_write(w, size, offset, buf) ==
    Let(ClusterWriter_write(w, buf), LAMBDA r :
        IF ~r.ok THEN [w |-> r.w, size |-> size, offset |-> offset, ok |-> FALSE, n |-> 0]
        ELSE [w |-> r.w, size |-> Max(size, offset + r.n), offset |-> offset + r.n,
              ok |-> TRUE, n |-> r.n])

\* std::io::Write::write_all over an EntryWriter: [w, size, offset, ok, n]
RECURSIVE EntryWriter_write_all(_, _, _, _)
EntryWriter_write_all(w, size, offset, buf) ==
    IF buf = <<>> THEN [w |-> w, size |-> size, offset |-> offset, ok |-> TRUE, n |-> 0]
    ELSE Let(EntryWriter_write(w, size, offset, buf), LAMBDA r :
            IF ~r.ok \/ r.n = 0
            THEN [w |-> r.w, size |-> r.size, offset |-> r.offset, ok |-> FALSE, n |-> 0]
            ELSE Let(EntryWriter_write_all(r.w, r.size, r.offset,
                                           SubSeq(buf, r.n + 1, Len(buf))),
                     LAMBDA rest : [w |-> rest.w, size |-> rest.size,
                                    offset |-> rest.offset, ok |-> rest.ok,
                                    n |-> r.n + rest.n]))

-----------------------------------------------------------------------------
(* serde.rs, and the Serialize / Deserialize impls of bitmap.rs, cluster.rs *)

\* u32::to_be_bytes of a value below 2^31
U32_be(x) == <<x \div 16777216, (x \div 65536) % 256, (x \div 256) % 256, x % 256>>

\* (start as u32 | (1 << 31)).to_be_bytes()
U32_be_flagged(x) == [U32_be(x) EXCEPT ![1] = IF @ >= 128 THEN @ ELSE @ + 128]

\* u32::from_be_bytes with the high bit masked off
U32_low31(b) == (b[1] % 128) * 16777216 + b[2] * 65536 + b[3] * 256 + b[4]

\* u32::from_be_bytes; a value with the high bit set is not representable here
\* and saturates: as a count it always runs the decoder into the end of the
\* stream
U32_value(b) == IF b[1] >= 128 THEN 2147483647 ELSE U32_low31(b)

\* u64::to_be_bytes of a value below 2^31
U64_be(x) == <<0, 0, 0, 0>> \o U32_be(x)

\* u64::from_be_bytes, saturating like U32_value
U64_value(b) ==
    IF b[1] # 0 \/ b[2] # 0 \/ b[3] # 0 \/ b[4] # 0 THEN 2147483647
    ELSE U32_value(SubSeq(b, 5, 8))

\* (faulty variant) a block one below the current range's start is merged
\* into the range as well
RECURSIVE Cluster_ranges_both(_, _)
Cluster_ranges_both(blocks, ranges) ==
    IF blocks = <<>> THEN ranges
    ELSE LET block == Head(blocks)
             n == Len(ranges)
         IN IF n > 0 /\ ranges[n].end + 1 = block
            THEN Cluster_ranges_both(Tail(blocks), [ranges EXCEPT ![n].end = block])
            ELSE IF n > 0 /\ block + 1 = ranges[n].start
            THEN Cluster_ranges_both(Tail(blocks), [ranges EXCEPT ![n].start = block])
            ELSE Cluster_ranges_both(Tail(blocks),
                                     Append(ranges, [start |-> block, end |-> block]))

\* the ranges of Cluster::serialize, formed greedily in list order
RECURSIVE Cluster_ranges(_, _)
Cluster_ranges(blocks, ranges) ==
    IF blocks = <<>> THEN ranges
    ELSE LET block == Head(blocks)
             n == Len(ranges)
         IN IF n > 0 /\ ranges[n].end + 1 = block
            THEN Cluster_ranges(Tail(blocks), [ranges EXCEPT ![n].end = block])
            ELSE Cluster_ranges(Tail(blocks),
                                Append(ranges, [start |-> block, end |-> block]))

\* (faulty variant) a range of two or more blocks is written as start and
\* end instead of start and length
RECURSIVE Cluster_serialize_ranges_end(_)
Cluster_serialize_ranges_end(ranges) ==
    IF ranges = <<>> THEN <<>>
    ELSE LET start == Head(ranges).start
             len == Head(ranges).end - start + 1
         IN (IF len = 1 THEN U32_be(start)
             ELSE U32_be_flagged(start) \o U32_be(Head(ranges).end))
            \o Cluster_serialize_ranges_end(Tail(ranges))

\* the `for range in ranges` loop of Cluster::serialize: the bytes written
RECURSIVE Cluster_serialize_ranges(_)
Cluster_serialize_ranges(ranges) ==
    IF ranges = <<>> THEN <<>>
    ELSE LET start == Head(ranges).start
             len == Head(ranges).end - start + 1
         IN (IF len = 1 THEN U32_be(start)
             ELSE U32_be_flagged(start) \o U32_be(len))
            \o Cluster_serialize_ranges(Tail(ranges))

\* Serialize for Cluster: the bytes written
Cluster_serialize(blocks) ==
    Let(Cluster_ranges(blocks, <<>>), LAMBDA ranges :
        U32_be(Len(ranges)) \o Cluster_serialize_ranges(ranges))

\* Serialize for Bitmap: the bytes written
Bitmap_serialize(map) == map

\* A reader a decoder pulls from: rd = [kind, blocks, size, cbi, off, offset],
\* kind "mem" (MemoryReader at offset), "cluster" (ClusterReader at cbi, off)
\* or "entry" (EntryReader at offset over a ClusterReader at cbi, off)
MemReader == [kind |-> "mem", blocks |-> <<>>, size |-> 0, cbi |-> 0, off |-> 0, offset |-> 0]
ClusterReaderOf(blocks) ==
    [kind |-> "cluster", blocks |-> blocks, size |-> 0, cbi |-> 0, off |-> 0, offset |-> 0]
EntryReaderOf(e) ==
    [kind |-> "entry", blocks |-> e.cluster, size |-> e.size, cbi |-> 0, off |-> 0, offset |-> 0]

\* std::io::Read::read_exact over an EntryReader whose offset is within size
RECURSIVE EntryReader_read_exact(_, _, _)
EntryReader_read_exact(m, rd, n) ==
    IF n = 0 THEN [ok |-> TRUE, data |-> <<>>, rd |-> rd]
    ELSE Let(EntryReader_read(m, [size |-> rd.size, cluster |-> rd.blocks],
                              [cbi |-> rd.cbi, off |-> rd.off, offset |-> rd.offset],
                              n, "debug"),
             LAMBDA r :
                IF r.data = <<>> THEN [ok |-> FALSE, data |-> <<>>, rd |-> rd]
                ELSE Let(EntryReader_read_exact(m,
                            [rd EXCEPT !.cbi = r.rd.cbi, !.off = r.rd.off,
                                       !.offset = r.rd.offset], n - Len(r.data)),
                         LAMBDA rest : [ok |-> rest.ok, data |-> r.data \o rest.data,
                                        rd |-> rest.rd]))

\* read_exact of n bytes from a reader: [ok, data, rd]; ok = FALSE is
\* Err(UnexpectedEof)
Reader_read_exact(m, rd, n) ==
    CASE rd.kind = "mem" ->
            Let(MemoryReader_read_exact(m, rd.offset, n), LAMBDA r :
                [ok |-> r.ok, data |-> r.data, rd |-> [rd EXCEPT !.offset = r.offset]])
      [] rd.kind = "cluster" ->
            Let(ClusterReader_read_exact(m, rd.blocks, rd.cbi, rd.off, n), LAMBDA r :
                [ok |-> r.ok, data |-> r.data,
                 rd |-> [rd EXCEPT !.cbi = r.cbi, !.off = r.off]])
      [] rd.kind = "entry" -> EntryReader_read_exact(m, rd, n)

\* (faulty variant) the bytes are consumed but the map is left as allocated
Bitmap_deserialize_keep(map, m, rd) ==
    Let(Reader_read_exact(m, rd, Len(map)), LAMBDA r :
        [ok |-> r.ok, map |-> map, rd |-> r.rd])

\* Deserialize for Bitmap: [ok, map, rd]; a failed read_exact leaves the map
\* as it was
Bitmap_deserialize(map, m, rd) ==
    Let(Reader_read_exact(m, rd, Len(map)), LAMBDA r :
        [ok |-> r.ok, map |-> IF r.ok THEN r.data ELSE map, rd |-> r.rd])

\* (faulty variant) the range is decoded as index..=index + range_len
Cluster_range_blocks_inclusive(index, range_len) ==
    [i \in 1..(range_len + 1) |-> index + i - 1]

\* the blocks index, index + 1, ..., index + range_len - 1
Cluster_range_blocks(index, range_len) == [i \in 1..range_len |-> index + i - 1]

\* the `for _ in 0..len` loop of Cluster::deserialize: [ok, blocks, rd]
RECURSIVE Cluster_deserialize_ranges(_, _, _, _, _)
Cluster_deserialize_ranges(blocks, m, rd, len, bytes_read) ==
    IF len = 0 THEN [ok |-> TRUE, blocks |-> blocks, rd |-> rd, n |-> bytes_read]
    ELSE Let(Reader_read_exact(m, rd, 4), LAMBDA a :
            IF ~a.ok THEN [ok |-> FALSE, blocks |-> blocks, rd |-> a.rd, n |-> bytes_read]
            ELSE IF a.data[1] >= 128
            THEN Let(Reader_read_exact(m, a.rd, 4), LAMBDA b :
                    IF ~b.ok
                    THEN [ok |-> FALSE, blocks |-> blocks, rd |-> b.rd,
                          n |-> bytes_read + 4]
                    ELSE Cluster_deserialize_ranges(
                            blocks \o Cluster_range_blocks(U32_low31(a.data),
                                                           U32_value(b.data)),
                            m, b.rd, len - 1, bytes_read + 8))
            ELSE Cluster_deserialize_ranges(Append(blocks, U32_value(a.data)),
                                            m, a.rd, len - 1, bytes_read + 4))

\* Deserialize for Cluster: [ok, blocks, rd, n], n the bytes_read returned
Cluster_deserialize(blocks, m, rd) ==
    Let(Reader_read_exact(m, rd, 4), LAMBDA a :
        IF ~a.ok THEN [ok |-> FALSE, blocks |-> blocks, rd |-> a.rd, n |-> 0]
        ELSE Cluster_deserialize_ranges(blocks, m, a.rd, U32_value(a.data), 4))

-----------------------------------------------------------------------------
(* file_system.rs: fs = [bitmap, root_cluster, mem] *)

FileSystem_preamble_blocks == Bitmap_len_for_memory_impl \div Block_SIZE + 8

FileSystem_allocate(memory) ==
    [bitmap |-> Bitmap_new, root_cluster |-> Cluster_default, mem |-> memory]

\* Serialize for Vec<Entry> with no entries: the usize length prefix
Directory_default_serialize == U64_be(0)

\* (faulty variant) the preamble blocks are not reserved
FileSystem_init_no_preamble(fs) ==
    Let(ClusterWriter_write_all(
            [bitmap |-> fs.bitmap, mem |-> fs.mem, blocks |-> fs.root_cluster,
             cbi |-> 0, off |-> 0],
            Directory_default_serialize),
        LAMBDA r :
            [fs |-> [bitmap |-> r.w.bitmap, root_cluster |-> r.w.blocks, mem |-> r.w.mem],
             ok |-> r.ok])

\* (faulty variant) the last preamble block is not reserved
FileSystem_init_short(fs) ==
    Let(ClusterWriter_write_all(
            [bitmap |-> OccupyAll(fs.bitmap, 0..(FileSystem_preamble_blocks - 2)),
             mem |-> fs.mem, blocks |-> fs.root_cluster, cbi |-> 0, off |-> 0],
            Directory_default_serialize),
        LAMBDA r :
            [fs |-> [bitmap |-> r.w.bitmap, root_cluster |-> r.w.blocks, mem |-> r.w.mem],
             ok |-> r.ok])

\* (faulty variant) the loop over the preamble blocks runs one block too far
FileSystem_init_long(fs) ==
    Let(ClusterWriter_write_all(
            [bitmap |-> OccupyAll(fs.bitmap, 0..FileSystem_preamble_blocks),
             mem |-> fs.mem, blocks |-> fs.root_cluster, cbi |-> 0, off |-> 0],
            Directory_default_serialize),
        LAMBDA r :
            [fs |-> [bitmap |-> r.w.bitmap, root_cluster |-> r.w.blocks, mem |-> r.w.mem],
             ok |-> r.ok])

\* FileSystem::init: [fs, ok]
FileSystem_init(fs) ==
    Let(ClusterWriter_write_all(
            [bitmap |-> OccupyAll(fs.bitmap, 0..(FileSystem_preamble_blocks - 1)),
             mem |-> fs.mem, blocks |-> fs.root_cluster, cbi |-> 0, off |-> 0],
            Directory_default_serialize),
        LAMBDA r :
            [fs |-> [bitmap |-> r.w.bitmap, root_cluster |-> r.w.blocks, mem |-> r.w.mem],
             ok |-> r.ok])

\* FileSystem::new: [fs, ok]
FileSystem_new(memory) == FileSystem_init(FileSystem_allocate(memory))

\* FileSystem::persist: the memory afterwards (the writes through a
\* MemoryWriter over HeapMemory do not fail)
FileSystem_persist(fs) ==
    MemoryWriter_write_all(fs.mem, 0,
        Bitmap_serialize(fs.bitmap) \o Cluster_serialize(fs.root_cluster)).mem

\* FileSystem::restore: [fs, ok]
FileSystem_restore(fs) ==
    Let(Bitmap_deserialize(fs.bitmap, fs.mem, MemReader), LAMBDA b :
        IF ~b.ok THEN [fs |-> fs, ok |-> FALSE]
        ELSE Let(Cluster_deserialize(fs.root_cluster, fs.mem, b.rd), LAMBDA c :
                [fs |-> [bitmap |-> b.map, root_cluster |-> c.blocks, mem |-> fs.mem],
                 ok |-> c.ok]))

\* FileSystem::open: [fs, ok]
FileSystem_open(memory) == FileSystem_restore(FileSystem_allocate(memory))

-----------------------------------------------------------------------------
(* The calls a holder of the pieces makes, one action each *)

NoHandle == [kind |-> "none", cbi |-> 0, off |-> 0, offset |-> 0]
NoClosure == [op |-> "none", name |-> <<>>, content |-> <<>>]
NoCall ==
    [op |-> "none", pos |-> 0, buf |-> <<>>, n |-> 0, ok |-> TRUE, data |-> <<>>,
     err |-> "", path |-> <<>>, log |-> <<>>, f |-> NoClosure,
     start |-> <<>>, end |-> <<>>, dir |-> <<>>, consumed |-> 0]
Entry_default == [kind |-> "File", size |-> 0, name |-> <<>>, cluster |-> <<>>]

\* the inputs the calls are tried with
SeekFroms ==
    {[whence |-> "Start", n |-> b * Block_SIZE + d] :
        b \in 0..MaxSeekBlock, d \in {0, Block_SIZE - 1}}
    \cup {[whence |-> "Current", n |-> -1], [whence |-> "End", n |-> 0]}
WriteBufs == {<<>>, <<65>>, <<66, 67>>}
WriteAllBufs == {<<72, 101, 108>>}
ReadLens == {1, 2}

Tick == ops > 0 /\ ops' = ops - 1

\* the logical position of a handle's cluster cursor
CursorPos(hd) == hd.cbi * Block_SIZE + hd.off

\* shadow with buf[1..n] recorded from logical offset pos on
Recorded(sh, pos, buf, n) == Store(sh, pos, SubSeq(buf, 1, n))

\* Cluster::writer on the root cluster (FileSystem::write_into_root_cluster)
RootWriter ==
    /\ Tick
    /\ h' = [kind |-> "cw", cbi |-> 0, off |-> 0, offset |-> 0]
    /\ last' = [NoCall EXCEPT !.op = "writer"]
    /\ UNCHANGED <<mem, bitmap, root_cluster, entry, hand, shadow>>

\* Cluster::reader on the root cluster (FileSystem::read_from_root_cluster)
RootReader ==
    /\ Tick
    /\ h' = [kind |-> "cr", cbi |-> 0, off |-> 0, offset |-> 0]
    /\ last' = [NoCall EXCEPT !.op = "reader"]
    /\ UNCHANGED <<mem, bitmap, root_cluster, entry, hand, shadow>>

\* ClusterWriter::seek / ClusterReader::seek (offsets that wrap below 0 are
\* not tried)
ClusterSeek(pos) ==
    /\ h.kind \in {"cw", "cr"}
    /\ LET new_offset == Cluster_seek_offset(root_cluster, h.cbi, h.off, pos)
       IN /\ new_offset >= 0
          /\ Tick
          /\ h' = [h EXCEPT !.cbi = new_offset \div Block_SIZE,
                            !.off = new_offset % Block_SIZE]
          /\ last' = [NoCall EXCEPT !.op = "seek", !.pos = CursorPos(h), !.n = new_offset]
    /\ UNCHANGED <<mem, bitmap, root_cluster, entry, hand, shadow>>

RootW == [bitmap |-> bitmap, mem |-> mem, blocks |-> root_cluster,
          cbi |-> h.cbi, off |-> h.off]

\* what a call on the root cluster's writer leaves behind
RootWritten(r, op, buf) ==
    /\ bitmap' = r.w.bitmap
    /\ mem' = r.w.mem
    /\ root_cluster' = r.w.blocks
    /\ h' = [h EXCEPT !.cbi = r.w.cbi, !.off = r.w.off]
    /\ shadow' = [shadow EXCEPT !.root = Recorded(@, CursorPos(h), buf, r.n)]
    /\ last' = [NoCall EXCEPT !.op = op, !.pos = CursorPos(h), !.buf = buf, !.n = r.n,
                              !.ok = r.ok, !.err = r.err]
    /\ UNCHANGED <<entry, hand>>

\* one ClusterWriter::write call
ClusterWrite(buf) ==
    /\ h.kind = "cw"
    /\ Tick
    /\ RootWritten(ClusterWriter_write(RootW, buf), "write", buf)

\* write_all on the ClusterWriter
ClusterWriteAll(buf) ==
    /\ h.kind = "cw"
    /\ Tick
    /\ RootWritten(ClusterWriter_write_all(RootW, buf), "write_all", buf)

\* one ClusterReader::read call
ClusterRead(n) ==
    /\ h.kind = "cr"
    /\ Tick
    /\ \E r \in {ClusterReader_read(mem, root_cluster, h.cbi, h.off, n)} :
          /\ h' = [h EXCEPT !.cbi = r.cbi, !.off = r.off]
          /\ last' = [NoCall EXCEPT !.op = "read", !.pos = CursorPos(h), !.buf = <<>>, !.n = n,
                             !.ok = (TRUE), !.data = r.data]
    /\ UNCHANGED <<mem, bitmap, root_cluster, entry, hand, shadow>>

\* Entry::write_to_file_system: an EntryWriter over the entry's cluster
EntryWriterNew ==
    /\ Tick
    /\ h' = [kind |-> "ew", cbi |-> 0, off |-> 0, offset |-> 0]
    /\ last' = [NoCall EXCEPT !.op = "ewriter"]
    /\ UNCHANGED <<mem, bitmap, root_cluster, entry, hand, shadow>>

\* Entry::read_from_file_system: an EntryReader over the entry's cluster
EntryReaderNew ==
    /\ Tick
    /\ h' = [kind |-> "er", cbi |-> 0, off |-> 0, offset |-> 0]
    /\ last' = [NoCall EXCEPT !.op = "ereader"]
    /\ UNCHANGED <<mem, bitmap, root_cluster, entry, hand, shadow>>

\* EntryWriter::seek / EntryReader::seek: the inner cluster stream seeks, the
\* entry stream takes the new offset
EntrySeek(pos) ==
    /\ h.kind \in {"ew", "er"}
    /\ LET new_offset == Cluster_seek_offset(entry.cluster, h.cbi, h.off, pos)
       IN /\ new_offset >= 0
          /\ Tick
          /\ h' = [h EXCEPT !.cbi = new_offset \div Block_SIZE,
                            !.off = new_offset % Block_SIZE,
                            !.offset = new_offset]
          /\ last' = [NoCall EXCEPT !.op = "eseek", !.pos = h.offset, !.n = new_offset]
    /\ UNCHANGED <<mem, bitmap, root_cluster, entry, hand, shadow>>

EntryW == [bitmap |-> bitmap, mem |-> mem, blocks |-> entry.cluster,
           cbi |-> h.cbi, off |-> h.off]

\* what a call on the entry's writer leaves behind
EntryWritten(r, op, buf) ==
    /\ bitmap' = r.w.bitmap
    /\ mem' = r.w.mem
    /\ entry' = [entry EXCEPT !.cluster = r.w.blocks, !.size = r.size]
    /\ h' = [h EXCEPT !.cbi = r.w.cbi, !.off = r.w.off, !.offset = r.offset]
    /\ shadow' = [shadow EXCEPT !.entry = Recorded(@, CursorPos(h), buf, r.n)]
    /\ last' = [NoCall EXCEPT !.op = op, !.pos = h.offset, !.buf = buf, !.n = r.n,
                       !.ok = (r.ok), !.data = <<>>]
    /\ UNCHANGED <<root_cluster, hand>>

\* one EntryWriter::write call
EntryWrite(buf) ==
    /\ h.kind = "ew"
    /\ Tick
    /\ EntryWritten(EntryWriter_write(EntryW, entry.size, h.offset, buf), "ewrite", buf)

\* write_all on the EntryWriter
EntryWriteAll(buf) ==
    /\ h.kind = "ew"
    /\ Tick
    /\ EntryWritten(EntryWriter_write_all(EntryW, entry.size, h.offset, buf),
                    "ewrite_all", buf)

\* one EntryReader::read call, in a build with or without overflow checks; a
\* panic unwinds and the reader is gone
EntryRead(n) ==
    /\ h.kind = "er"
    /\ Tick
    /\ \E build \in {"debug", "release"} :
          \E r \in {EntryReader_read(mem, entry,
                        [cbi |-> h.cbi, off |-> h.off, offset |-> h.offset], n, build)} :
             /\ h' = IF r.status = "panic" THEN NoHandle
                     ELSE [h EXCEPT !.cbi = r.rd.cbi, !.off = r.rd.off,
                                    !.offset = r.rd.offset]
             /\ last' = [NoCall EXCEPT !.op = "eread", !.pos = h.offset, !.buf = <<>>, !.n = n,
                                !.ok = (r.status = "ok"), !.data = r.data]
    /\ UNCHANGED <<mem, bitmap, root_cluster, entry, hand, shadow>>

\* the bits the test of file_system.rs occupies by hand, scaled to sit just
\* above the preamble
HandBits == {FileSystem_preamble_blocks + 1, FileSystem_preamble_blocks + 2}

\* fs.bitmap.occupy(i) by the holder of the file system
Occupy(i) ==
    /\ Tick
    /\ bitmap' = Bitmap_occupy(bitmap, i)
    /\ hand' = IF Bitmap_index(bitmap, i) THEN hand ELSE hand \cup {i}
    /\ h' = NoHandle
    /\ last' = [NoCall EXCEPT !.op = "occupy", !.n = i]
    /\ UNCHANGED <<mem, root_cluster, entry, shadow>>

FS == [bitmap |-> bitmap, root_cluster |-> root_cluster, mem |-> mem]

\* FileSystem::persist
Persist ==
    /\ Tick
    /\ mem' = FileSystem_persist(FS)
    /\ h' = NoHandle
    /\ last' = [NoCall EXCEPT !.op = "persist"]
    /\ UNCHANGED <<bitmap, root_cluster, entry, hand, shadow>>

\* the file system is dropped (Drop persists it) and FileSystem::open is
\* called on the same memory; a failed open drops the value it was restoring,
\* which persists that
Reopen ==
    /\ Tick
    /\ \E r \in {FileSystem_open(FileSystem_persist(FS))} :
          /\ bitmap' = r.fs.bitmap
          /\ root_cluster' = r.fs.root_cluster
          /\ mem' = IF r.ok THEN r.fs.mem ELSE FileSystem_persist(r.fs)
          /\ last' = [NoCall EXCEPT !.op = "reopen", !.ok = r.ok]
    /\ h' = NoHandle
    /\ UNCHANGED <<entry, hand, shadow>>

-----------------------------------------------------------------------------
(* Spec: a file system made by FileSystem::new over an empty heap; its      *)
(* holder writes and reads through the root cluster's stream and through    *)
(* the stream of an entry it holds, occupies bits by hand, persists and     *)
(* reopens                                                                  *)

Init ==
    /\ \E r \in {FileSystem_new(HeapMemory_default)} :
          /\ mem = r.fs.mem
          /\ bitmap = r.fs.bitmap
          /\ root_cluster = r.fs.root_cluster
    /\ entry = Entry_default
    /\ h = NoHandle
    /\ hand = {}
    /\ shadow = [root |-> <<>>, entry |-> <<>>]
    /\ last = NoCall
    /\ ops = MaxOps

Next ==
    \/ RootWriter
    \/ RootReader
    \/ \E pos \in SeekFroms : ClusterSeek(pos)
    \/ \E buf \in WriteBufs : ClusterWrite(buf)
    \/ \E buf \in WriteAllBufs : ClusterWriteAll(buf)
    \/ \E n \in ReadLens : ClusterRead(n)
    \/ EntryWriterNew
    \/ EntryReaderNew
    \/ \E pos \in SeekFroms : EntrySeek(pos)
    \/ \E buf \in WriteBufs : EntryWrite(buf)
    \/ \E buf \in WriteAllBufs : EntryWriteAll(buf)
    \/ \E n \in ReadLens : EntryRead(n)
    \/ \E i \in HandBits : Occupy(i)
    \/ Persist
    \/ Reopen

Spec == Init /\ [][Next]_vars

-----------------------------------------------------------------------------
(* SpecCluster: the pieces built by hand, as the tests of cluster.rs do: a  *)
(* cluster of blocks in any order over an empty heap, the bitmap holding    *)
(* the cluster's bits and possibly one more                                 *)

HandClusters ==
    {c \in UNION {[1..n -> 0..MaxInitBlock] : n \in 0..MaxInitLen} :
        \A i, j \in DOMAIN c : i # j => c[i] # c[j]}

InitCluster ==
    /\ mem = HeapMemory_default
    /\ \E c \in HandClusters, x \in {{}, {1}} :
          /\ root_cluster = c
          /\ hand = Range(c) \cup x
          /\ bitmap = OccupyAll(Bitmap_new, Range(c) \cup x)
    /\ entry = Entry_default
    /\ h = NoHandle
    /\ shadow = [root |-> <<>>, entry |-> <<>>]
    /\ last = NoCall
    /\ ops = MaxClusterOps

NextCluster ==
    \/ RootWriter
    \/ RootReader
    \/ \E pos \in SeekFroms : ClusterSeek(pos)
    \/ \E buf \in WriteBufs : ClusterWrite(buf)
    \/ \E buf \in WriteAllBufs : ClusterWriteAll(buf)
    \/ \E n \in ReadLens : ClusterRead(n)

SpecCluster == InitCluster /\ [][NextCluster]_vars

-----------------------------------------------------------------------------
(* directory.rs: a Directory is the sequence of its entries, an Entry is    *)
(* [kind, size, name, cluster], a name is the sequence of its bytes         *)

\* Serialize for EntryKind
EntryKind_serialize(kind) == IF kind = "File" THEN <<1>> ELSE <<2>>

\* str::as_bytes: a String is held as its characters (code points), its
\* bytes are their UTF-8 encoding
Char_encode_utf8(c) ==
    IF c < 128 THEN <<c>>
    ELSE IF c < 2048 THEN <<192 + c \div 64, 128 + (c % 64)>>
    ELSE IF c < 65536
    THEN <<224 + c \div 4096, 128 + ((c \div 64) % 64), 128 + (c % 64)>>
    ELSE <<240 + c \div 262144, 128 + ((c \div 4096) % 64),
           128 + ((c \div 64) % 64), 128 + (c % 64)>>

RECURSIVE Str_as_bytes(_)
Str_as_bytes(name) ==
    IF name = <<>> THEN <<>>
    ELSE Char_encode_utf8(Head(name)) \o Str_as_bytes(Tail(name))

\* (faulty variant) the length written is the number of characters
Str_serialize_chars(name) == U64_be(Len(name)) \o Str_as_bytes(name)

\* Serialize for &str: the length in bytes as u64, then the bytes
Str_serialize(name) ==
    Let(Str_as_bytes(name), LAMBDA bytes : U64_be(Len(bytes)) \o bytes)

\* the first chunk of String::from_utf8_lossy at bytes[i]: [c, len], the
\* character decoded and the bytes it takes; bytes that are not the start
\* of a valid sequence give U+FFFD for the longest prefix that could have
\* started one
Utf8_chunk(bytes, i) ==
    LET at(k) == IF i + k <= Len(bytes) THEN bytes[i + k] ELSE -1
        b == bytes[i]
        cont(k) == at(k) >= 128 /\ at(k) <= 191
        second == IF b = 224 THEN at(1) >= 160 /\ at(1) <= 191
                  ELSE IF b = 237 THEN at(1) >= 128 /\ at(1) <= 159
                  ELSE IF b = 240 THEN at(1) >= 144 /\ at(1) <= 191
                  ELSE IF b = 244 THEN at(1) >= 128 /\ at(1) <= 143
                  ELSE cont(1)
        bad(n) == [c |-> 65533, len |-> n]
    IN IF b < 128 THEN [c |-> b, len |-> 1]
       ELSE IF b >= 194 /\ b <= 223
       THEN IF cont(1) THEN [c |-> (b - 192) * 64 + (at(1) - 128), len |-> 2]
            ELSE bad(1)
       ELSE IF b >= 224 /\ b <= 239
       THEN IF ~second THEN bad(1)
            ELSE IF ~cont(2) THEN bad(2)
            ELSE [c |-> (b - 224) * 4096 + (at(1) - 128) * 64 + (at(2) - 128),
                  len |-> 3]
       ELSE IF b >= 240 /\ b <= 244
       THEN IF ~second THEN bad(1)
            ELSE IF ~cont(2) THEN bad(2)
            ELSE IF ~cont(3) THEN bad(3)
            ELSE [c |-> (b - 240) * 262144 + (at(1) - 128) * 4096
                            + (at(2) - 128) * 64 + (at(3) - 128),
                  len |-> 4]
       ELSE bad(1)

\* String::from_utf8_lossy(&bytes).to_string(), from bytes[i] on
RECURSIVE String_from_utf8_lossy_from(_, _)
String_from_utf8_lossy_from(bytes, i) ==
    IF i > Len(bytes) THEN <<>>
    ELSE Let(Utf8_chunk(bytes, i), LAMBDA ch :
            <<ch.c>> \o String_from_utf8_lossy_from(bytes, i + ch.len))

String_from_utf8_lossy(bytes) == String_from_utf8_lossy_from(bytes, 1)

\* Serialize for Entry
Entry_serialize(e) ==
    EntryKind_serialize(e.kind) \o Str_serialize(e.name)
        \o U64_be(e.size) \o Cluster_serialize(e.cluster)

\* Serialize for Vec<Entry> (Serialize for Directory)
RECURSIVE Entries_serialize(_)
Entries_serialize(entries) ==
    IF entries = <<>> THEN <<>>
    ELSE Entry_serialize(Head(entries)) \o Entries_serialize(Tail(entries))

Directory_serialize(entries) == U64_be(Len(entries)) \o Entries_serialize(entries)

\* the counts the Serialize impls return: each part's own count, summed
Entry_serialize_count(e) ==
    1 + (8 + Len(Str_as_bytes(e.name))) + 8 + Len(Cluster_serialize(e.cluster))

RECURSIVE Entries_serialize_count(_)
Entries_serialize_count(entries) ==
    IF entries = <<>> THEN 0
    ELSE Entry_serialize_count(Head(entries)) + Entries_serialize_count(Tail(entries))

Directory_serialize_count(entries) == 8 + Entries_serialize_count(entries)

\* Deserialize for Entry into a default entry: [ok, err, e, rd]; a kind byte
\* other than 1 or 2 is InvalidInput, a read_exact past the end UnexpectedEof
Entry_deserialize(m, rd) ==
    Let(Reader_read_exact(m, rd, 1), LAMBDA k :
    IF ~k.ok
    THEN [ok |-> FALSE, err |-> "UnexpectedEof", e |-> Entry_default, rd |-> k.rd,
          n |-> 0]
    ELSE IF k.data[1] \notin {1, 2}
    THEN [ok |-> FALSE, err |-> "InvalidInput", e |-> Entry_default, rd |-> k.rd,
          n |-> 0]
    ELSE Let(Reader_read_exact(m, k.rd, 8), LAMBDA l :
    IF ~l.ok
    THEN [ok |-> FALSE, err |-> "UnexpectedEof", e |-> Entry_default, rd |-> l.rd,
          n |-> 0]
    ELSE Let(Reader_read_exact(m, l.rd, U64_value(l.data)), LAMBDA nm :
    IF ~nm.ok
    THEN [ok |-> FALSE, err |-> "UnexpectedEof", e |-> Entry_default, rd |-> nm.rd,
          n |-> 0]
    ELSE Let(Reader_read_exact(m, nm.rd, 8), LAMBDA s :
    IF ~s.ok
    THEN [ok |-> FALSE, err |-> "UnexpectedEof", e |-> Entry_default, rd |-> s.rd,
          n |-> 0]
    ELSE Let(Cluster_deserialize(<<>>, m, s.rd), LAMBDA c :
        [ok |-> c.ok,
         err |-> IF c.ok THEN "" ELSE "UnexpectedEof",
         e |-> [kind |-> IF k.data[1] = 1 THEN "File" ELSE "Directory",
                size |-> U64_value(s.data),
                name |-> String_from_utf8_lossy(nm.data),
                cluster |-> c.blocks],
         rd |-> c.rd,
         n |-> 1 + (8 + U64_value(l.data)) + 8 + c.n])))))

\* the `for _ in 0..len` loop of Deserialize for Vec<Entry>:
\* [ok, err, entries, rd, n], n the data_bytes_read summed so far
RECURSIVE Entries_deserialize(_, _, _, _, _)
Entries_deserialize(entries, m, rd, len, data_bytes_read) ==
    IF len = 0
    THEN [ok |-> TRUE, err |-> "", entries |-> entries, rd |-> rd,
          n |-> data_bytes_read]
    ELSE Let(Entry_deserialize(m, rd), LAMBDA r :
            IF ~r.ok
            THEN [ok |-> FALSE, err |-> r.err, entries |-> entries, rd |-> r.rd,
                  n |-> data_bytes_read]
            ELSE Entries_deserialize(Append(entries, r.e), m, r.rd, len - 1,
                                     data_bytes_read + r.n))

\* Directory::deserialize_into_default: [ok, err, entries, rd, n], n the
\* count deserialize returns
Directory_deserialize(m, rd) ==
    Let(Reader_read_exact(m, rd, 8), LAMBDA l :
        IF ~l.ok
        THEN [ok |-> FALSE, err |-> "UnexpectedEof", entries |-> <<>>, rd |-> l.rd,
              n |-> 0]
        ELSE Let(Entries_deserialize(<<>>, m, l.rd, U64_value(l.data), 0), LAMBDA r :
                [r EXCEPT !.n = 8 + r.n]))

\* FileSystem::read_root_directory
FileSystem_read_root_directory(fs) ==
    Directory_deserialize(fs.mem, ClusterReaderOf(fs.root_cluster))

\* entry.read_from_file_system(fs).read_directory()
Entry_read_directory(fs, e) == Directory_deserialize(fs.mem, EntryReaderOf(e))

\* FileSystem::write_root_directory: [fs, ok]
FileSystem_write_root_directory(fs, directory) ==
    Let(ClusterWriter_write_all(
            [bitmap |-> fs.bitmap, mem |-> fs.mem, blocks |-> fs.root_cluster,
             cbi |-> 0, off |-> 0],
            Directory_serialize(directory)),
        LAMBDA r :
            [fs |-> [bitmap |-> r.w.bitmap, root_cluster |-> r.w.blocks, mem |-> r.w.mem],
             ok |-> r.ok])

\* entry.write_to_file_system(fs).write_all(bytes): [fs, e, ok]
Entry_write_all(fs, e, bytes) ==
    Let(EntryWriter_write_all(
            [bitmap |-> fs.bitmap, mem |-> fs.mem, blocks |-> e.cluster,
             cbi |-> 0, off |-> 0],
            e.size, 0, bytes),
        LAMBDA r :
            [fs |-> [fs EXCEPT !.bitmap = r.w.bitmap, !.mem = r.w.mem],
             e |-> [e EXCEPT !.size = r.size, !.cluster = r.w.blocks],
             ok |-> r.ok])

\* entry.write_to_file_system(fs).write_directory(&directory): [fs, e, ok]
Entry_write_directory(fs, e, directory) ==
    Entry_write_all(fs, e, Directory_serialize(directory))

\* Directory::add_file / Directory::add_directory: the entries afterwards
Directory_add_file(entries, name) ==
    Append(entries, [Entry_default EXCEPT !.kind = "File", !.name = name])
Directory_add_directory(entries, name) ==
    Append(entries, [Entry_default EXCEPT !.kind = "Directory", !.name = name])

\* Directory::entry_with_name(_mut): the index of the first entry of that
\* name, 0 for None
Directory_entry_with_name(entries, name) ==
    IF \E i \in DOMAIN entries : entries[i].name = name
    THEN CHOOSE i \in DOMAIN entries :
            /\ entries[i].name = name
            /\ \A j \in DOMAIN entries : entries[j].name = name => i <= j
    ELSE 0

\* what the calls below leave in their log, in the order they happen: the
\* caller's closure being invoked, a directory serialized into its entry's
\* stream (name: the entry's name), the root directory serialized into the
\* root cluster
Invoked == [ev |-> "f", name |-> <<>>, bytes |-> <<>>]
WroteEntry(name, directory) ==
    [ev |-> "write_directory", name |-> name, bytes |-> Directory_serialize(directory)]
WroteRoot(directory) ==
    [ev |-> "write_root_directory", name |-> <<>>, bytes |-> Directory_serialize(directory)]

\* (faulty variant) a directory is added for the segment whether or not an
\* entry of that name exists
RECURSIVE Directory_make_directory_recursive_add(_, _, _)
Directory_make_directory_recursive_add(dir, fs, path) ==
    IF path = <<>> THEN [dir |-> dir, fs |-> fs, err |-> "", log |-> <<>>]
    ELSE Let(Directory_make_directory_recursive_add(<<>>, fs, Tail(path)), LAMBDA r :
            IF r.err # "" THEN [dir |-> dir, fs |-> r.fs, err |-> r.err, log |-> r.log]
            ELSE Let(Directory_add_directory(dir, Head(path)), LAMBDA added :
                 Let(Entry_write_directory(r.fs, added[Len(added)], r.dir),
                     LAMBDA w :
                        [dir |-> [added EXCEPT ![Len(added)] = w.e],
                         fs |-> w.fs,
                         err |-> IF w.ok THEN "" ELSE "WriteZero",
                         log |-> Append(r.log, WroteEntry(Head(path), r.dir))])))

\* (faulty variant) an entry of kind File is read as a directory, as the
\* entry of a directory is
RECURSIVE Directory_make_directory_recursive_nokind(_, _, _)
Directory_make_directory_recursive_nokind(dir, fs, path) ==
    IF path = <<>> THEN [dir |-> dir, fs |-> fs, err |-> "", log |-> <<>>]
    ELSE LET segment == Head(path)
             i == Directory_entry_with_name(dir, segment)
         IN IF i # 0
            THEN Let(Entry_read_directory(fs, dir[i]), LAMBDA sub :
                    IF ~sub.ok
                    THEN [dir |-> dir, fs |-> fs, err |-> sub.err, log |-> <<>>]
                    ELSE Let(Directory_make_directory_recursive_nokind(
                                sub.entries, fs, Tail(path)),
                             LAMBDA r : [dir |-> dir, fs |-> r.fs, err |-> r.err,
                                         log |-> r.log]))
            ELSE Let(Directory_make_directory_recursive_nokind(<<>>, fs, Tail(path)),
                     LAMBDA r :
                    IF r.err # ""
                    THEN [dir |-> dir, fs |-> r.fs, err |-> r.err, log |-> r.log]
                    ELSE Let(Directory_add_directory(dir, segment), LAMBDA added :
                         Let(Entry_write_directory(r.fs, added[Len(added)], r.dir),
                             LAMBDA w :
                                [dir |-> [added EXCEPT ![Len(added)] = w.e],
                                 fs |-> w.fs,
                                 err |-> IF w.ok THEN "" ELSE "WriteZero",
                                 log |-> Append(r.log, WroteEntry(segment, r.dir))])))

\* Directory::make_directory_recursive: [dir, fs, err, log], err "" for Ok.
\* Under an entry that exists the call goes on in the directory read from it,
\* and that directory is dropped when the call returns.
RECURSIVE Directory_make_directory_recursive(_, _, _)
Directory_make_directory_recursive(dir, fs, path) ==
    IF path = <<>> THEN [dir |-> dir, fs |-> fs, err |-> "", log |-> <<>>]
    ELSE LET segment == Head(path)
             i == Directory_entry_with_name(dir, segment)
         IN IF i # 0 /\ dir[i].kind = "File"
            THEN [dir |-> dir, fs |-> fs, err |-> "InvalidInput", log |-> <<>>]
            ELSE IF i # 0
            THEN Let(Entry_read_directory(fs, dir[i]), LAMBDA sub :
                    IF ~sub.ok
                    THEN [dir |-> dir, fs |-> fs, err |-> sub.err, log |-> <<>>]
                    ELSE Let(Directory_make_directory_recursive(
                                sub.entries, fs, Tail(path)),
                             LAMBDA r : [dir |-> dir, fs |-> r.fs, err |-> r.err,
                                         log |-> r.log]))
            ELSE Let(Directory_make_directory_recursive(<<>>, fs, Tail(path)), LAMBDA r :
                    IF r.err # ""
                    THEN [dir |-> dir, fs |-> r.fs, err |-> r.err, log |-> r.log]
                    ELSE Let(Directory_add_directory(dir, segment), LAMBDA added :
                         Let(Entry_write_directory(r.fs, added[Len(added)], r.dir),
                             LAMBDA w :
                                [dir |-> [added EXCEPT ![Len(added)] = w.e],
                                 fs |-> w.fs,
                                 err |-> IF w.ok THEN "" ELSE "WriteZero",
                                 log |-> Append(r.log, WroteEntry(segment, r.dir))])))

\* the closures the callers pass, f = [op, name, content]: "add_file" is
\* |dir, fs| dir.add_file(name).write_to_file_system(fs).write_all(content),
\* "nested_dir" builds a directory holding that file and adds it under the
\* same name with add_directory(name).write_to_file_system(fs)
\* .write_directory(&dir); the result is [dir, fs, err, log]
Closure_apply(f, dir, fs) ==
    IF f.op \in {"add_file", "add_file_err"}
    THEN Let(Directory_add_file(dir, f.name), LAMBDA added :
         Let(Entry_write_all(fs, added[Len(added)], f.content), LAMBDA w :
            [dir |-> [added EXCEPT ![Len(added)] = w.e], fs |-> w.fs,
             err |-> IF ~w.ok THEN "WriteZero"
                     ELSE IF f.op = "add_file_err" THEN "InvalidData" ELSE "",
             log |-> <<Invoked>>]))
    ELSE Let(Entry_write_all(fs, Directory_add_file(<<>>, f.name)[1], f.content),
             LAMBDA w :
                IF ~w.ok
                THEN [dir |-> dir, fs |-> w.fs, err |-> "WriteZero", log |-> <<Invoked>>]
                ELSE Let(Directory_add_directory(dir, f.name), LAMBDA added :
                     Let(Entry_write_directory(w.fs, added[Len(added)], <<w.e>>),
                         LAMBDA d :
                            [dir |-> [added EXCEPT ![Len(added)] = d.e], fs |-> d.fs,
                             err |-> IF d.ok THEN "" ELSE "WriteZero",
                             log |-> <<Invoked>>])))

\* (faulty variant) the sub-directory is written into its entry's stream
\* before the call goes down into it, and again after
RECURSIVE FileSystem_with_directory_mut_rec_early(_, _, _, _)
FileSystem_with_directory_mut_rec_early(fs, dir, path, f) ==
    IF path = <<>> THEN Closure_apply(f, dir, fs)
    ELSE LET i == Directory_entry_with_name(dir, Head(path))
         IN IF i = 0 THEN [dir |-> dir, fs |-> fs, err |-> "NotFound", log |-> <<>>]
            ELSE IF dir[i].kind = "File"
            THEN [dir |-> dir, fs |-> fs, err |-> "Other", log |-> <<>>]
            ELSE Let(Entry_read_directory(fs, dir[i]), LAMBDA subdir :
                    IF ~subdir.ok
                    THEN [dir |-> dir, fs |-> fs, err |-> subdir.err, log |-> <<>>]
                    ELSE Let(FileSystem_with_directory_mut_rec_early(
                                fs, subdir.entries, Tail(path), f),
                             LAMBDA r :
                                IF r.err # ""
                                THEN [dir |-> dir, fs |-> r.fs, err |-> r.err,
                                      log |-> r.log]
                                ELSE Let(Entry_write_directory(r.fs, dir[i], r.dir),
                                         LAMBDA w :
                                            [dir |-> [dir EXCEPT ![i] = w.e],
                                             fs |-> w.fs,
                                             err |-> IF w.ok THEN ""
                                                     ELSE "WriteZero",
                                             log |-> <<WroteEntry(dir[i].name,
                                                                  subdir.entries)>>
                                                     \o Append(r.log,
                                                          WroteEntry(dir[i].name,
                                                                     r.dir))])))

\* (faulty variant) a segment naming a File fails with NotFound, and one
\* with no entry with Other
RECURSIVE FileSystem_with_directory_mut_rec_swapped(_, _, _, _)
FileSystem_with_directory_mut_rec_swapped(fs, dir, path, f) ==
    IF path = <<>> THEN Closure_apply(f, dir, fs)
    ELSE LET i == Directory_entry_with_name(dir, Head(path))
         IN IF i = 0 THEN [dir |-> dir, fs |-> fs, err |-> "Other", log |-> <<>>]
            ELSE IF dir[i].kind = "File"
            THEN [dir |-> dir, fs |-> fs, err |-> "NotFound", log |-> <<>>]
            ELSE Let(Entry_read_directory(fs, dir[i]), LAMBDA subdir :
                    IF ~subdir.ok
                    THEN [dir |-> dir, fs |-> fs, err |-> subdir.err, log |-> <<>>]
                    ELSE Let(FileSystem_with_directory_mut_rec_swapped(
                                fs, subdir.entries, Tail(path), f),
                             LAMBDA r :
                                IF r.err # ""
                                THEN [dir |-> dir, fs |-> r.fs, err |-> r.err,
                                      log |-> r.log]
                                ELSE Let(Entry_write_directory(r.fs, dir[i], r.dir),
                                         LAMBDA w :
                                            [dir |-> [dir EXCEPT ![i] = w.e],
                                             fs |-> w.fs,
                                             err |-> IF w.ok THEN ""
                                                     ELSE "WriteZero",
                                             log |-> Append(r.log,
                                                        WroteEntry(dir[i].name,
                                                                   r.dir))])))

\* (faulty variant) the sub-directory is not written back into its entry's
\* stream after the call into it returns
RECURSIVE FileSystem_with_directory_mut_rec_nowrite(_, _, _, _)
FileSystem_with_directory_mut_rec_nowrite(fs, dir, path, f) ==
    IF path = <<>> THEN Closure_apply(f, dir, fs)
    ELSE LET i == Directory_entry_with_name(dir, Head(path))
         IN IF i = 0 THEN [dir |-> dir, fs |-> fs, err |-> "NotFound", log |-> <<>>]
            ELSE IF dir[i].kind = "File"
            THEN [dir |-> dir, fs |-> fs, err |-> "Other", log |-> <<>>]
            ELSE Let(Entry_read_directory(fs, dir[i]), LAMBDA subdir :
                    IF ~subdir.ok
                    THEN [dir |-> dir, fs |-> fs, err |-> subdir.err, log |-> <<>>]
                    ELSE Let(FileSystem_with_directory_mut_rec_nowrite(
                                fs, subdir.entries, Tail(path), f),
                             LAMBDA r : [dir |-> dir, fs |-> r.fs, err |-> r.err,
                                         log |-> r.log]))

\* FileSystem::with_directory_mut_rec: [dir, fs, err, log]
RECURSIVE FileSystem_with_directory_mut_rec(_, _, _, _)
FileSystem_with_directory_mut_rec(fs, dir, path, f) ==
    IF path = <<>> THEN Closure_apply(f, dir, fs)
    ELSE LET i == Directory_entry_with_name(dir, Head(path))
         IN IF i = 0 THEN [dir |-> dir, fs |-> fs, err |-> "NotFound", log |-> <<>>]
            ELSE IF dir[i].kind = "File"
            THEN [dir |-> dir, fs |-> fs, err |-> "Other", log |-> <<>>]
            ELSE Let(Entry_read_directory(fs, dir[i]), LAMBDA subdir :
                    IF ~subdir.ok
                    THEN [dir |-> dir, fs |-> fs, err |-> subdir.err, log |-> <<>>]
                    ELSE Let(FileSystem_with_directory_mut_rec(
                                fs, subdir.entries, Tail(path), f),
                             LAMBDA r :
                                IF r.err # ""
                                THEN [dir |-> dir, fs |-> r.fs, err |-> r.err,
                                      log |-> r.log]
                                ELSE Let(Entry_write_directory(r.fs, dir[i], r.dir),
                                         LAMBDA w :
                                            [dir |-> [dir EXCEPT ![i] = w.e],
                                             fs |-> w.fs,
                                             err |-> IF w.ok THEN ""
                                                     ELSE "WriteZero",
                                             log |-> Append(r.log,
                                                        WroteEntry(dir[i].name,
                                                                   r.dir))])))

\* the closure with_root_directory_mut is called with, c = [op, path, f]:
\* |root, fs| fs.with_directory_mut_rec(root, path.into_iter(), f), or
\* |root, fs| root.make_directory_recursive(fs, path.into_iter())
RootClosure_apply(c, root, fs) ==
    IF c.op = "with_directory_mut_rec"
    THEN FileSystem_with_directory_mut_rec(fs, root, c.path, c.f)
    ELSE Directory_make_directory_recursive(root, fs, c.path)

\* (faulty variant) the closure's error is returned before the root directory
\* is written: let r = f(&mut dir, self)?;
FileSystem_with_root_directory_mut_early(fs, c) ==
    Let(FileSystem_read_root_directory(fs), LAMBDA d :
        IF ~d.ok THEN [dir |-> <<>>, fs |-> fs, err |-> d.err, log |-> <<>>]
        ELSE Let(RootClosure_apply(c, d.entries, fs), LAMBDA r :
                IF r.err # "" THEN r
                ELSE Let(FileSystem_write_root_directory(r.fs, r.dir), LAMBDA w :
                        [dir |-> r.dir, fs |-> w.fs,
                         err |-> IF ~w.ok THEN "WriteZero" ELSE r.err,
                         log |-> Append(r.log, WroteRoot(r.dir))])))

\* FileSystem::with_root_directory_mut: [dir, fs, err, log], dir the directory
\* written back
FileSystem_with_root_directory_mut(fs, c) ==
    Let(FileSystem_read_root_directory(fs), LAMBDA d :
        IF ~d.ok THEN [dir |-> <<>>, fs |-> fs, err |-> d.err, log |-> <<>>]
        ELSE Let(RootClosure_apply(c, d.entries, fs), LAMBDA r :
             Let(FileSystem_write_root_directory(r.fs, r.dir), LAMBDA w :
                [dir |-> r.dir, fs |-> w.fs,
                 err |-> IF ~w.ok THEN "WriteZero" ELSE r.err,
                 log |-> Append(r.log, WroteRoot(r.dir))])))

\* FileSystem::with_directory_mut
FileSystem_with_directory_mut(fs, path, f) ==
    FileSystem_with_root_directory_mut(fs,
        [op |-> "with_directory_mut_rec", path |-> path, f |-> f])

\* FileSystem::make_directory_recursive
FileSystem_make_directory_recursive(fs, path) ==
    FileSystem_with_root_directory_mut(fs,
        [op |-> "make_directory_recursive", path |-> path, f |-> <<>>])

\* the `for segment in path` loop of FileSystem::with_directory, then the
\* closure, one that hands the directory back: [dir, err, log]. The entry
\* found is read as a directory whatever its kind.
RECURSIVE FileSystem_with_directory_rec(_, _, _)
FileSystem_with_directory_rec(fs, dir, path) ==
    IF path = <<>> THEN [dir |-> dir, err |-> "", log |-> <<Invoked>>]
    ELSE LET i == Directory_entry_with_name(dir, Head(path))
         IN IF i = 0 THEN [dir |-> <<>>, err |-> "NotFound", log |-> <<>>]
            ELSE Let(Entry_read_directory(fs, dir[i]), LAMBDA sub :
                    IF ~sub.ok THEN [dir |-> <<>>, err |-> sub.err, log |-> <<>>]
                    ELSE FileSystem_with_directory_rec(fs, sub.entries, Tail(path)))

\* FileSystem::with_directory
FileSystem_with_directory(fs, path) ==
    Let(FileSystem_read_root_directory(fs), LAMBDA d :
        IF ~d.ok THEN [dir |-> <<>>, err |-> d.err, log |-> <<>>]
        ELSE FileSystem_with_directory_rec(fs, d.entries, path))

-----------------------------------------------------------------------------
(* SpecDir: a file system made by FileSystem::new over an empty heap; its   *)
(* holder makes directories, adds files and nested directories at paths,    *)
(* walks paths, persists and reopens                                        *)

Names == {<<97>>, <<98>>}
Paths == {<<>>, <<<<97>>>>, <<<<98>>>>, <<<<97>>, <<98>>>>}
Zeros(n) == [i \in 1..n |-> 0]
Contents == {<<72, 105>>, Zeros(Block_SIZE + MaxExtraLen)}
Closures == {[op |-> o, name |-> n, content |-> c] :
                o \in {"add_file", "nested_dir"}, n \in Names, c \in Contents}

\* what a call that went through with_root_directory_mut leaves behind
DirWritten(r, op, path, f) ==
    /\ bitmap' = r.fs.bitmap
    /\ mem' = r.fs.mem
    /\ root_cluster' = r.fs.root_cluster
    /\ shadow' = IF r.fs.mem = mem /\ r.err # "" THEN shadow
                 ELSE [shadow EXCEPT !.root =
                          Let(Directory_serialize(r.dir), LAMBDA bytes :
                              Recorded(@, 0, bytes, Len(bytes)))]
    /\ last' = [NoCall EXCEPT !.op = op, !.ok = (r.err = ""), !.err = r.err,
                              !.path = path, !.log = r.log, !.f = f]
    /\ UNCHANGED <<entry, h, hand>>

MakeDirectoryRecursive(path) ==
    /\ Tick
    /\ \E r \in {FileSystem_make_directory_recursive(FS, path)} :
          DirWritten(r, "mkdir", path, NoClosure)

WithDirectoryMut(path, f) ==
    /\ Tick
    /\ \E r \in {FileSystem_with_directory_mut(FS, path, f)} :
          DirWritten(r, "with_directory_mut", path, f)

WithDirectory(path) ==
    /\ Tick
    /\ \E r \in {FileSystem_with_directory(FS, path)} :
          last' = [NoCall EXCEPT !.op = "with_directory", !.ok = (r.err = ""),
                                 !.n = Len(r.dir), !.err = r.err,
                                 !.path = path, !.log = r.log]
    /\ UNCHANGED <<mem, bitmap, root_cluster, entry, h, hand, shadow>>

InitDir ==
    /\ \E r \in {FileSystem_new(HeapMemory_default)} :
          /\ mem = r.fs.mem
          /\ bitmap = r.fs.bitmap
          /\ root_cluster = r.fs.root_cluster
    /\ entry = Entry_default
    /\ h = NoHandle
    /\ hand = {}
    /\ shadow = [root |-> <<>>, entry |-> <<>>]
    /\ last = NoCall
    /\ ops = MaxDirOps

NextDir ==
    \/ \E path \in Paths \ {<<>>} : MakeDirectoryRecursive(path)
    \/ \E path \in Paths, f \in Closures : WithDirectoryMut(path, f)
    \/ \E path \in Paths : WithDirectory(path)
    \/ Persist
    \/ Reopen

SpecDir == InitDir /\ [][NextDir]_vars

\* the entries that can be reached from a directory's entries, walking at
\* most depth levels down
RECURSIVE Reachable(_, _, _)
Reachable(fs, entries, depth) ==
    {entries[i] : i \in DOMAIN entries}
    \cup UNION {IF entries[i].kind = "Directory" /\ depth > 0
                THEN LET s == Entry_read_directory(fs, entries[i])
                     IN IF s.ok THEN Reachable(fs, s.entries, depth - 1) ELSE {}
                ELSE {} : i \in DOMAIN entries}

\* the entries reachable from the stored root directory
ReachableFromRoot ==
    LET d == FileSystem_read_root_directory(FS)
    IN IF d.ok THEN Reachable(FS, d.entries, MaxDepth) ELSE {}

-----------------------------------------------------------------------------
(* Claims about the cluster stream *)

\* the bits of a bitmap that are Occupied
Occupied(map) == {i \in 0..(8 * Len(map) - 1) : Bitmap_index(map, i)}

\* the lowest bit index below 8 * nbytes that is not in S
LowestFree(S, nbytes) ==
    CHOOSE i \in (0..(8 * nbytes - 1)) \ S : \A j \in (0..(8 * nbytes - 1)) \ S : i <= j

\* C2: every byte written through the cluster's writer at logical offset j is
\* stored at physical offset blocks[j/512]*512 + j%512, a reader seeked to j
\* returns it, and after a write_all at offset k a reader seeked to k reads
\* back the whole buffer.
C2_StreamLayout ==
    /\ \A j \in DOMAIN shadow.root :
          /\ j \div 512 < Len(root_cluster)
          /\ Byte(mem, root_cluster[(j \div 512) + 1] * 512 + (j % 512)) = shadow.root[j]
          /\ ClusterReader_read(mem, root_cluster, j \div Block_SIZE, j % Block_SIZE, 1).data
                = <<shadow.root[j]>>
    /\ (last.op = "write_all" /\ last.ok) =>
          LET r == ClusterReader_read_exact(mem, root_cluster, last.pos \div Block_SIZE,
                                            last.pos % Block_SIZE, Len(last.buf))
          IN r.ok /\ r.data = last.buf

\* C2 witness: cluster [2, 0] built by hand, "Hel" written from logical
\* offset 511 lands in block 2's last byte and block 0's first two bytes.
C2_Witness ==
    /\ last.op = "write_all" /\ last.ok /\ last.pos = 511
    /\ root_cluster = <<2, 0>>
    /\ Byte(mem, 2 * 512 + 511) = 72
    /\ Byte(mem, 0) = 101 /\ Byte(mem, 1) = 108

\* C3: a write through the cluster's writer only appends blocks; each block
\* appended is the lowest free bit at that moment and becomes occupied; and
\* when the cursor's block index is at or past the end, at least one block is
\* appended.
C3_AllocLowestFree ==
    [][(h.kind = "cw" /\ last'.op \in {"write", "write_all"}) =>
        LET old == root_cluster
            new == root_cluster'
            k == Len(new) - Len(old)
            added(i) == {new[Len(old) + j] : j \in 1..i}
        IN /\ k >= 0
           /\ SubSeq(new, 1, Len(old)) = old
           /\ \A i \in 1..k :
                 new[Len(old) + i] = LowestFree(Occupied(bitmap) \cup added(i - 1), Len(bitmap))
           /\ Occupied(bitmap') = Occupied(bitmap) \cup added(k)
           /\ (h.cbi >= Len(old) /\ last'.buf # <<>> /\ last'.ok) => k >= 1
           /\ (h.cbi >= Len(old) /\ last'.op = "write") => k = h.cbi - Len(old) + 1
    ]_vars

\* C3 witness: bits {0, 2} occupied, cluster [0, 2]; a write starting at
\* logical offset 1023 crossed into a new block, which is block 1.
C3_Witness ==
    /\ last.op = "write_all" /\ last.ok /\ last.pos = 1023
    /\ hand = {0, 2}
    /\ root_cluster = <<0, 2, 1>>
    /\ Bitmap_index(bitmap, 1)

-----------------------------------------------------------------------------
(* Claims about the file system and the entry stream *)

\* the non-zero bytes of the store below the end of the preamble
PreambleBytes(m) ==
    LET D == {o \in DOMAIN m.data : o < FileSystem_preamble_blocks * Block_SIZE}
    IN [o \in D |-> m.data[o]]

\* C1: dropping the file system (which persists it) and opening the same
\* memory gives the same bitmap and the same root cluster, and the root
\* cluster's stream still reads back every byte written to it.
C1_ReopenRoundTrip ==
    [][last'.op = "reopen" =>
        /\ last'.ok
        /\ bitmap' = bitmap
        /\ root_cluster' = root_cluster
        /\ \A j \in DOMAIN shadow.root :
              ClusterReader_read(mem', root_cluster', j \div Block_SIZE,
                                 j % Block_SIZE, 1).data = <<shadow.root[j]>>
    ]_vars

\* C1 witness: reopened with a root cluster of a two-block run and a block
\* apart from it, holding written bytes.
C1_Witness ==
    /\ last.op = "reopen" /\ last.ok
    /\ root_cluster = <<8, 9, 11>>
    /\ shadow.root # <<>>

\* C5: no block occurs twice in the root cluster and the entry's cluster taken
\* together, none of their blocks is a preamble block or a bit occupied by
\* hand, and the occupied bits number PREAMBLE_BLOCKS + cluster blocks + bits
\* occupied by hand.
C5_UniqueBlocks ==
    LET all == root_cluster \o entry.cluster
    IN /\ \A i, j \in DOMAIN all : i # j => all[i] # all[j]
       /\ Range(all) \cap (0..(FileSystem_preamble_blocks - 1)) = {}
       /\ Range(all) \cap hand = {}
       /\ Cardinality(Occupied(bitmap))
            = FileSystem_preamble_blocks + Len(all) + Cardinality(hand)

\* C5 witness: a bit occupied by hand between the blocks of two clusters that
\* grew in turn.
C5_Witness ==
    /\ hand = {9}
    /\ root_cluster = <<8, 10>>
    /\ entry.cluster = <<11>>

\* C7: no cluster holds a block below PREAMBLE_BLOCKS, and a write through a
\* cluster writer leaves the bytes below PREAMBLE_BLOCKS * 512 as they were.
C7_PreambleUntouched ==
    [][/\ \A b \in Range(root_cluster') \cup Range(entry'.cluster) :
             b >= FileSystem_preamble_blocks
       /\ last'.op \in {"write", "write_all", "ewrite", "ewrite_all"} =>
             PreambleBytes(mem') = PreambleBytes(mem)
    ]_vars

\* C7 witness: bytes were written through a cluster writer after the
\* preamble had been persisted.
C7_Witness ==
    /\ last.op \in {"write", "ewrite"} /\ last.n > 0
    /\ PreambleBytes(mem) # <<>>

\* C8: the entry's size never exceeds 512 times the number of its blocks.
C8_SizeWithinCluster == entry.size <= Block_SIZE * Len(entry.cluster)

\* C8 witness: a write that ends exactly at the end of the entry's only block.
C8_Witness ==
    /\ last.op = "ewrite" /\ last.ok /\ last.pos = 511
    /\ entry.size = 512
    /\ Len(entry.cluster) = 1

\* C9 (as claimed): a read through the entry's reader succeeds, returns no
\* byte when the position is at or past size, and never returns a byte at an
\* offset at or past size.
C9_ReadWithinSize ==
    last.op = "eread" =>
        /\ last.ok
        /\ last.pos >= entry.size => last.data = <<>>
        /\ last.data # <<>> => last.pos + Len(last.data) <= entry.size

\* C10: a successful write through the entry's writer sets size to the max of
\* the old size and the stream offset after the write, and no step lowers
\* size.
C10_SizeHighWater ==
    [][/\ (last'.op \in {"ewrite", "ewrite_all"} /\ last'.ok) =>
             entry'.size = Max(entry.size, CursorPos(h'))
       /\ entry'.size >= entry.size
    ]_vars

\* C10 witness: a write behind the high-water mark left size above the offset
\* after the write.
C10_Witness ==
    /\ last.op = "ewrite" /\ last.ok /\ last.n > 0
    /\ entry.size > CursorPos(h)

-----------------------------------------------------------------------------
(* Claims about the directory tree *)

\* C4: every block of the root cluster, and every block of the cluster of
\* every entry reachable from the stored root directory, has its bitmap bit
\* set.
C4_ReachableBlocksOccupied ==
    /\ \A b \in Range(root_cluster) : Bitmap_index(bitmap, b)
    /\ \A e \in ReachableFromRoot :
          \A b \in Range(e.cluster) : Bitmap_index(bitmap, b)

\* C4 witness: reopened with a file of two blocks inside a directory inside a
\* directory.
C4_Witness ==
    /\ last.op = "reopen" /\ last.ok
    /\ LET d == FileSystem_read_root_directory(FS)
       IN /\ d.ok
          /\ \E e \in ReachableFromRoot \ Range(d.entries) :
                e.kind = "File" /\ Len(e.cluster) = 2
          /\ \E e \in ReachableFromRoot \ Range(d.entries) : e.kind = "Directory"

\* C6: bitmap bit i is set for every block i below PREAMBLE_BLOCKS.
C6_PreambleOccupied ==
    \A i \in 0..(FileSystem_preamble_blocks - 1) : Bitmap_index(bitmap, i)

\* C6 witness: a persisted image was restored after a directory had been
\* made and walked.
C6_Witness ==
    /\ last.op = "reopen" /\ last.ok
    /\ FileSystem_with_directory(FS, <<<<97>>, <<98>>>>).err = ""
    /\ C6_PreambleOccupied

\* ---------------------------------------------------------------------------
\* The bitmap on its own: occupy_next called repeatedly on a given bitmap
\* ---------------------------------------------------------------------------

\* byte values the first two bytes of the initial bitmap are drawn from
BitmapBytes == {0, 255, 253, 165, 127}

\* the other 62 bytes: all free, all occupied, or all occupied but bit 511
BitmapTails ==
    {[i \in 1..(Bitmap_len_for_memory_impl - 2) |-> 0],
     [i \in 1..(Bitmap_len_for_memory_impl - 2) |-> 255],
     [i \in 1..(Bitmap_len_for_memory_impl - 2) |->
        IF i = Bitmap_len_for_memory_impl - 2 THEN 127 ELSE 255]}

\* hand holds the bits occupied at the start, last.data the indices returned
InitBitmap ==
    /\ mem = HeapMemory_default
    /\ \E b0 \in BitmapBytes, b1 \in BitmapBytes, t \in BitmapTails :
          bitmap = <<b0, b1>> \o t
    /\ hand = {i \in 0..(8 * Len(bitmap) - 1) : Bitmap_index(bitmap, i)}
    /\ root_cluster = Cluster_default
    /\ entry = Entry_default
    /\ h = NoHandle
    /\ shadow = [root |-> <<>>, entry |-> <<>>]
    /\ last = NoCall
    /\ ops = MaxBitmapOps

\* Bitmap::occupy_next
OccupyNext ==
    /\ Tick
    /\ \E r \in {Bitmap_occupy_next(bitmap)} :
          /\ bitmap' = r.map
          /\ last' = [NoCall EXCEPT !.op = "occupy_next",
                                    !.ok = (r.index # -1),
                                    !.n = r.index,
                                    !.data = IF r.index = -1 THEN last.data
                                             ELSE Append(last.data, r.index)]
    /\ UNCHANGED <<mem, root_cluster, entry, h, hand, shadow>>

NextBitmap == OccupyNext

SpecBitmap == InitBitmap /\ [][NextBitmap]_vars

\* C11: from a bitmap whose free bits are f0 < f1 < ..., the k-th occupy_next
\* returns f(k-1), the bits occupied after k calls are the initial ones plus
\* exactly f0..f(k-1), and with no free bit left occupy_next returns None and
\* the bitmap stays as it was.
C11_OccupyNextInOrder ==
    [][last'.op = "occupy_next" =>
        LET free == (0..(8 * Len(bitmap) - 1)) \ hand
            k == Len(last'.data)
        IN /\ \A i \in 1..k :
                 /\ last'.data[i] \in free
                 /\ Cardinality({f \in free : f < last'.data[i]}) = i - 1
           /\ Occupied(bitmap') = hand \cup Range(last'.data)
           /\ IF free \ Range(last.data) = {}
              THEN ~last'.ok /\ bitmap' = bitmap /\ last'.data = last.data
              ELSE last'.ok /\ k = Len(last.data) + 1 /\ last'.n = last'.data[k]
    ]_vars

\* C11 witness: only bits 1 and 511 were free; three calls returned 1, then
\* 511, then None.
C11_Witness ==
    /\ last.op = "occupy_next" /\ ~last.ok
    /\ last.data = <<1, 511>>
    /\ hand = (0..511) \ {1, 511}
    /\ Occupied(bitmap) = 0..511

\* ---------------------------------------------------------------------------
\* Cluster serialization on its own: a cluster is serialized into memory and
\* deserialized from it into an empty cluster
\* ---------------------------------------------------------------------------

\* clusters of the serde test and of its comments, and clusters whose indices
\* need all four bytes of a u32 below 2^31
SerdeExamples ==
    {<<1, 2, 3, 5>>, <<3, 4, 5, 2, 6>>, <<2147483647>>,
     <<2147483646, 2147483647>>, <<16777215, 16777216, 0, 65535, 65536>>,
     <<255, 256, 257, 258, 259, 260>>}

\* every block list, in any order and with repetitions, within the bounds
SerdeClusters ==
    SerdeExamples \cup UNION {[1..n -> 0..MaxSerdeBlock] : n \in 0..MaxSerdeLen}

InitSerde ==
    /\ mem = HeapMemory_default
    /\ bitmap = Bitmap_new
    /\ root_cluster \in SerdeClusters
    /\ entry = Entry_default
    /\ h = NoHandle
    /\ hand = {}
    /\ shadow = [root |-> <<>>, entry |-> <<>>]
    /\ last = NoCall
    /\ ops = MaxSerdeOps

\* cluster.serialize(MemoryWriter::new(memory, 0)): last.buf holds the bytes
\* written, last.n the count serialize returned
ClusterSerialize ==
    /\ Tick
    /\ \E bytes \in {Cluster_serialize(root_cluster)} :
       \E w \in {MemoryWriter_write_all(mem, 0, bytes)} :
          /\ mem' = w.mem
          /\ last' = [NoCall EXCEPT !.op = "serialize", !.ok = w.ok,
                                    !.buf = bytes, !.n = Len(bytes)]
    /\ UNCHANGED <<bitmap, root_cluster, entry, h, hand, shadow>>

\* Cluster::default().deserialize(MemoryReader::new(memory, 0)) of what the
\* last call serialized: last.data holds the blocks read, last.n the bytes
\* consumed, last.pos the count serialize had returned
ClusterDeserialize ==
    /\ last.op = "serialize" /\ last.ok
    /\ Tick
    /\ \E r \in {Cluster_deserialize(Cluster_default, mem, MemReader)} :
          last' = [NoCall EXCEPT !.op = "deserialize", !.ok = r.ok,
                                 !.buf = last.buf, !.pos = last.n,
                                 !.data = r.blocks, !.n = r.rd.offset]
    /\ UNCHANGED <<mem, bitmap, root_cluster, entry, h, hand, shadow>>

NextSerde ==
    \/ ClusterSerialize
    \/ ClusterDeserialize

SpecSerde == InitSerde /\ [][NextSerde]_vars

\* C12: a serialized cluster with block indices below 2^31, in any order,
\* deserializes into an empty cluster as the identical block list, and the
\* deserializer consumes exactly the number of bytes the serializer reported.
C12_SerdeRoundTrip ==
    last.op = "deserialize" =>
        /\ last.ok
        /\ last.data = root_cluster
        /\ last.n = last.pos
        /\ last.n = Len(last.buf)

\* C12 witness: [3, 4, 5, 2, 6], neither monotonic nor contiguous, came back
\* from its 20 bytes.
C12_Witness ==
    /\ last.op = "deserialize"
    /\ root_cluster = <<3, 4, 5, 2, 6>>
    /\ last.data = <<3, 4, 5, 2, 6>>
    /\ last.n = 20

\* positions of a block list at which a range starts: the first block, and
\* every block that is not its predecessor's index + 1
RunStarts(blocks) ==
    {i \in 1..Len(blocks) : i = 1 \/ blocks[i] # blocks[i - 1] + 1}

\* the j-th range start, in list order
RunStart(blocks, j) ==
    CHOOSE i \in RunStarts(blocks) :
        Cardinality({t \in RunStarts(blocks) : t < i}) = j - 1

\* the number of blocks of the j-th range
RunLen(blocks, j) ==
    (IF j = Cardinality(RunStarts(blocks)) THEN Len(blocks) + 1
     ELSE RunStart(blocks, j + 1)) - RunStart(blocks, j)

\* the k-th big-endian u32 of a byte string: its high bit and its low 31 bits
WordFlag(bytes, k) == bytes[4 * k - 3] >= 128
WordLow(bytes, k) ==
    (bytes[4 * k - 3] % 128) * 16777216 + bytes[4 * k - 2] * 65536
        + bytes[4 * k - 1] * 256 + bytes[4 * k]

\* C13: the serialized bytes are a u32 count of the greedy ranges, then per
\* range one u32 index with the high bit clear for a single block, or one u32
\* start with the high bit set followed by one u32 length for two blocks or
\* more; [3,4,5,2,6] gives three ranges and [1,2,3,5] gives
\* 00000002 80000001 00000003 00000005.
C13_SerializedFormat ==
    last.op = "serialize" =>
        LET blocks == root_cluster
            bytes == last.buf
            nr == Cardinality(RunStarts(blocks))
            \* u32 words written before the j-th range
            before(j) == 1 + (j - 1) + Cardinality({i \in 1..(j - 1) : RunLen(blocks, i) >= 2})
        IN /\ Len(bytes) = 4 * before(nr + 1)
           /\ ~WordFlag(bytes, 1) /\ WordLow(bytes, 1) = nr
           /\ \A j \in 1..nr :
                 IF RunLen(blocks, j) = 1
                 THEN /\ ~WordFlag(bytes, before(j) + 1)
                      /\ WordLow(bytes, before(j) + 1) = blocks[RunStart(blocks, j)]
                 ELSE /\ WordFlag(bytes, before(j) + 1)
                      /\ WordLow(bytes, before(j) + 1) = blocks[RunStart(blocks, j)]
                      /\ ~WordFlag(bytes, before(j) + 2)
                      /\ WordLow(bytes, before(j) + 2) = RunLen(blocks, j)
           /\ blocks = <<3, 4, 5, 2, 6>> => nr = 3 /\ WordLow(bytes, 1) = 3
           /\ blocks = <<1, 2, 3, 5>> =>
                 bytes = <<0, 0, 0, 2, 128, 0, 0, 1, 0, 0, 0, 3, 0, 0, 0, 5>>

\* C13 witness: [1, 2, 3, 5] was serialized into the sixteen bytes of the
\* serde test.
C13_Witness ==
    /\ last.op = "serialize"
    /\ root_cluster = <<1, 2, 3, 5>>
    /\ last.buf = <<0, 0, 0, 2, 128, 0, 0, 1, 0, 0, 0, 3, 0, 0, 0, 5>>

\* ---------------------------------------------------------------------------
\* Claims about walking and making directories
\* ---------------------------------------------------------------------------

\* the prefixes of a path, the empty one and the path itself included
Prefixes(path) == {SubSeq(path, 1, k) : k \in 0..Len(path)}

\* C14: after make_directory_recursive(p) returned Ok, every prefix of p
\* resolves through with_directory, whether none, some or all leading
\* segments of p existed before.
C14_PrefixesResolve ==
    (last.op = "mkdir" /\ last.ok) =>
        \A q \in Prefixes(last.path) : FileSystem_with_directory(FS, q).err = ""

\* what the segments of a path name, looked up by name from a directory down:
\* "Directory" when every segment is the entry of a directory, "File" when
\* the walk comes to an entry of kind File, "None" when it comes to a
\* directory with no entry of the segment's name
RECURSIVE WalkKind(_, _, _)
WalkKind(fs, dir, path) ==
    IF path = <<>> THEN "Directory"
    ELSE LET i == Directory_entry_with_name(dir, Head(path))
         IN IF i = 0 THEN "None"
            ELSE IF dir[i].kind = "File" THEN "File"
            ELSE LET sub == Entry_read_directory(fs, dir[i])
                 IN IF sub.ok THEN WalkKind(fs, sub.entries, Tail(path))
                    ELSE "Unreadable"

\* the same from the stored root directory
WalkFromRoot(fs, path) ==
    LET d == FileSystem_read_root_directory(fs)
    IN IF d.ok THEN WalkKind(fs, d.entries, path) ELSE "Unreadable"

\* C15: make_directory_recursive with a path whose every segment already
\* exists as a directory returns Ok and leaves the stored bytes (the tree,
\* every entry's size and cluster), the root cluster and the bitmap exactly
\* as they were.
C15_MkdirIdempotent ==
    [][(last'.op = "mkdir" /\ WalkFromRoot(FS, last'.path) = "Directory") =>
        /\ last'.ok
        /\ mem' = mem
        /\ bitmap' = bitmap
        /\ root_cluster' = root_cluster
    ]_vars

\* C15 witness: a/b was made a second time: nothing but the root directory
\* was written, and a/b is still there.
C15_Witness ==
    /\ last.op = "mkdir" /\ last.ok
    /\ last.path = <<<<97>>, <<98>>>>
    /\ Len(last.log) = 1
    /\ WalkFromRoot(FS, last.path) = "Directory"

\* C16: make_directory_recursive(p) fails with InvalidInput whenever the walk
\* down p comes to an existing entry of kind File; no block is allocated and
\* the stored directory tree is the same as before the call.
C16_MkdirThroughFile ==
    [][(last'.op = "mkdir" /\ WalkFromRoot(FS, last'.path) = "File") =>
        /\ last'.err = "InvalidInput"
        /\ bitmap' = bitmap
        /\ root_cluster' = root_cluster
        /\ mem' = mem
    ]_vars

\* C16 witness: a is a directory and a/b a file; make_directory_recursive of
\* a/b failed with InvalidInput.
C16_Witness ==
    /\ last.op = "mkdir" /\ last.err = "InvalidInput"
    /\ last.path = <<<<97>>, <<98>>>>
    /\ WalkFromRoot(FS, <<<<97>>>>) = "Directory"
    /\ WalkFromRoot(FS, last.path) = "File"

\* C17: with_directory and with_directory_mut fail with NotFound when the
\* walk comes to a directory with no entry of the segment's name; f is not
\* invoked, no block is allocated and the stored tree is unchanged.
C17_MissingSegmentNotFound ==
    [][(/\ last'.op \in {"with_directory", "with_directory_mut"}
        /\ WalkFromRoot(FS, last'.path) = "None") =>
        /\ last'.err = "NotFound"
        /\ \A i \in DOMAIN last'.log : last'.log[i] # Invoked
        /\ bitmap' = bitmap
        /\ root_cluster' = root_cluster
        /\ mem' = mem
    ]_vars

\* C17 witness: a is a directory without an entry b; with_directory_mut of
\* a/b failed with NotFound.
C17_Witness ==
    /\ last.op = "with_directory_mut" /\ last.err = "NotFound"
    /\ last.path = <<<<97>>, <<98>>>>
    /\ WalkFromRoot(FS, <<<<97>>>>) = "Directory"
    /\ WalkFromRoot(FS, last.path) = "None"

\* C18: with_directory fails with InvalidInput, without invoking f, whenever
\* the walk comes to an entry of kind File, whatever bytes the file holds.
C18_WithDirectoryThroughFile ==
    (last.op = "with_directory" /\ WalkFromRoot(FS, last.path) = "File") =>
        /\ last.err = "InvalidInput"
        /\ \A i \in DOMAIN last.log : last.log[i] # Invoked

\* C19: with_directory_mut fails with InvalidInput, without invoking f,
\* whenever the walk comes to an entry of kind File.
C19_WithDirectoryMutThroughFile ==
    (last.op = "with_directory_mut" /\ WalkFromRoot(FS, last.path) = "File") =>
        /\ last.err = "InvalidInput"
        /\ \A i \in DOMAIN last.log : last.log[i] # Invoked

\* C20: in a successful with_directory_mut over a path of depth n, f runs
\* first; then the directory at depth n is written into its entry's stream,
\* then the one at depth n-1, and so on, and the root directory last; each is
\* written once, and from offset 0: read from the start of its stream, each
\* directory on the path is the one that was written.
C20_WriteBackOrder ==
    (last.op = "with_directory_mut" /\ last.ok) =>
        LET n == Len(last.path)
            log == last.log
        IN /\ Len(log) = n + 2
           /\ log[1] = Invoked
           /\ \A k \in 1..n :
                 /\ log[1 + k].ev = "write_directory"
                 /\ log[1 + k].name = last.path[n + 1 - k]
                 /\ LET d == FileSystem_with_directory(FS, SubSeq(last.path, 1, n + 1 - k))
                    IN d.err = "" /\ Directory_serialize(d.dir) = log[1 + k].bytes
           /\ log[n + 2].ev = "write_root_directory"
           /\ LET d == FileSystem_read_root_directory(FS)
              IN d.ok /\ Directory_serialize(d.entries) = log[n + 2].bytes

\* C20 witness: a file was added in a/b: f ran, then b was written, then a,
\* then the root directory.
C20_Witness ==
    /\ last.op = "with_directory_mut" /\ last.ok
    /\ last.path = <<<<97>>, <<98>>>>
    /\ Len(last.log) = 4
    /\ last.log[1] = Invoked
    /\ last.log[2].name = <<98>> /\ last.log[3].name = <<97>>
    /\ last.log[4].ev = "write_root_directory"

\* the file system that FileSystem::open finds after this one was persisted
Reopened(fs) == FileSystem_open(FileSystem_persist(fs)).fs

\* the bytes of a file entry read from the start of its stream: all of its
\* size bytes, and no byte more
FileHolds(fs, e, content) ==
    /\ e.kind = "File"
    /\ e.size = Len(content)
    /\ e.size <= Block_SIZE * Len(e.cluster)
    /\ \E r \in {Reader_read_exact(fs.mem, EntryReaderOf(e), e.size)} :
          r.ok /\ r.data = content
    /\ ~Reader_read_exact(fs.mem, EntryReaderOf(e), e.size + 1).ok

\* C21: after with_directory_mut(path, f) returned Ok, the walk from the
\* stored root, also after persist and open, finds at path the directory as
\* f left it (the entries it had, then the one f added); the stored entry of
\* every segment of the path has a size and cluster that hold its directory;
\* the bytes f wrote to the file read back unchanged, bounded by its size.
C21_MutationStored ==
    [][(last'.op = "with_directory_mut" /\ last'.ok) =>
        \E path \in {last'.path}, f \in {last'.f},
           before \in {FileSystem_with_directory(FS, last'.path)},
           now \in {[bitmap |-> bitmap', root_cluster |-> root_cluster', mem |-> mem']} :
        \A fs \in {now, Reopened(now)} :
        \E after \in {FileSystem_with_directory(fs, path)} :
           /\ before.err = "" /\ after.err = ""
           /\ Len(after.dir) = Len(before.dir) + 1
           /\ \A i \in DOMAIN before.dir : after.dir[i] = before.dir[i]
           /\ \E e \in {after.dir[Len(after.dir)]} :
                 /\ e.name = f.name
                 /\ IF f.op = "add_file" THEN FileHolds(fs, e, f.content)
                    ELSE /\ e.kind = "Directory"
                         /\ \E d \in {Entry_read_directory(fs, e)} :
                               /\ d.ok /\ Len(d.entries) = 1
                               /\ d.entries[1].name = f.name
                               /\ FileHolds(fs, d.entries[1], f.content)
           /\ \A k \in 1..Len(path) :
                 \E parent \in {FileSystem_with_directory(fs, SubSeq(path, 1, k - 1))},
                    child \in {FileSystem_with_directory(fs, SubSeq(path, 1, k))} :
                    \E e \in {parent.dir[Directory_entry_with_name(parent.dir, path[k])]} :
                       /\ e.kind = "Directory"
                       /\ Len(Directory_serialize(child.dir)) <= e.size
                       /\ e.size <= Block_SIZE * Len(e.cluster)
                       /\ Entry_read_directory(fs, e).entries = child.dir
    ]_vars

\* C21 witness: a file of 513 zero bytes was added in a/b, so b's directory
\* and then a's were rewritten.
C21_Witness ==
    /\ last.op = "with_directory_mut" /\ last.ok
    /\ last.path = <<<<97>>, <<98>>>>
    /\ last.f.op = "add_file" /\ Len(last.f.content) = Block_SIZE + MaxExtraLen
    /\ \E d \in {FileSystem_with_directory(FS, last.path)} :
          d.err = "" /\ FileHolds(FS, d.dir[Len(d.dir)], last.f.content)

\* ---------------------------------------------------------------------------
\* Claims about the file system's construction and its streams
\* ---------------------------------------------------------------------------

\* C22: after init() on a freshly allocated file system (the state before
\* any call is made on it) the occupied bits are exactly those of the
\* preamble blocks and one more, the root cluster is the single block of
\* index PREAMBLE_BLOCKS, and the root directory read back has no entries.
C22_StateAfterInit ==
    last.op = "none" =>
        /\ Len(root_cluster) = 1
        /\ root_cluster[1] = FileSystem_preamble_blocks
        /\ Occupied(bitmap) = (0..(FileSystem_preamble_blocks - 1)) \cup {root_cluster[1]}
        /\ Cardinality(Occupied(bitmap)) = FileSystem_preamble_blocks + 1
        /\ \E d \in {FileSystem_read_root_directory(FS)} : d.ok /\ d.entries = <<>>

\* C22 witness: the file system FileSystem::new returned, nothing called yet.
C22_Witness ==
    /\ last.op = "none" /\ ops = MaxOps
    /\ root_cluster = <<FileSystem_preamble_blocks>>
    /\ FileSystem_preamble_blocks \in Occupied(bitmap)
    /\ FileSystem_read_root_directory(FS).entries = <<>>

\* a one-byte write through the cluster's writer, the cluster being empty
\* and the cursor on the last byte of a logical block
BoundaryWrite ==
    /\ h.kind = "cw" /\ last'.op = "write" /\ Len(last'.buf) = 1
    /\ root_cluster = <<>>
    /\ h.off = Block_SIZE - 1

\* the one-byte write that follows such a write at once
AfterBoundaryWrite ==
    /\ h.kind = "cw" /\ last'.op = "write" /\ Len(last'.buf) = 1
    /\ last.op = "write" /\ last.ok /\ last.n = 1
    /\ last.pos % Block_SIZE = Block_SIZE - 1
    /\ Len(root_cluster) = last.pos \div Block_SIZE + 1
    /\ h.cbi = Len(root_cluster) /\ h.off = 0

\* C23 as stated: on an empty cluster, one byte written at logical offset
\* N*512 - 1 allocates exactly one block, and one more byte a second block.
C23_OneBlockAtBoundary ==
    [][/\ BoundaryWrite => Len(root_cluster') = 1
       /\ AfterBoundaryWrite => Len(root_cluster') = 2
    ]_vars

\* C23 (amended): on an empty cluster, one byte written at logical offset
\* N*512 - 1 allocates exactly N blocks, the byte goes into the N-th and the
\* cursor rolls to (N, 0); one more byte allocates exactly one block more.
C23_BlocksUpToBoundary ==
    [][/\ BoundaryWrite =>
            /\ last'.ok /\ last'.n = 1
            /\ Len(root_cluster') = h.cbi + 1
            /\ Byte(mem', root_cluster'[h.cbi + 1] * Block_SIZE + Block_SIZE - 1)
                  = last'.buf[1]
            /\ h'.cbi = h.cbi + 1 /\ h'.off = 0
       /\ AfterBoundaryWrite =>
            /\ last'.ok /\ last'.n = 1
            /\ Len(root_cluster') = Len(root_cluster) + 1
            /\ SubSeq(root_cluster', 1, Len(root_cluster)) = root_cluster
    ]_vars

\* C23 witness: writer, seek to 1023, one byte, one byte more: the empty
\* cluster got two blocks, then a third.
C23_Witness ==
    /\ last.op = "write" /\ last.ok /\ last.n = 1
    /\ last.pos = 2 * Block_SIZE
    /\ ops = MaxClusterOps - 4
    /\ Len(root_cluster) = 3
    /\ Cardinality(Occupied(bitmap) \ hand) = 3

\* ---------------------------------------------------------------------------
\* SpecFull: the pieces built by hand as in SpecCluster, over a bitmap in
\* which all bits but at most two are occupied
\* ---------------------------------------------------------------------------

\* the bits that may be free at the start
SpareBits == {5, 7}

InitFull ==
    /\ mem = HeapMemory_default
    /\ \E c \in HandClusters, free \in SUBSET SpareBits :
          /\ root_cluster = c
          /\ hand = (0..(8 * Bitmap_len_for_memory_impl - 1)) \ free
          /\ bitmap = [i \in 1..Bitmap_len_for_memory_impl |->
                          IF i = 1 THEN 255 - (IF 5 \in free THEN 32 ELSE 0)
                                            - (IF 7 \in free THEN 128 ELSE 0)
                          ELSE 255]
    /\ entry = Entry_default
    /\ h = NoHandle
    /\ shadow = [root |-> <<>>, entry |-> <<>>]
    /\ last = NoCall
    /\ ops = MaxClusterOps

SpecFull == InitFull /\ [][NextCluster]_vars

\* C24: a write through the cluster's writer that needs more blocks than the
\* bitmap has free bits fails with OutOfMemory and stores no data; the free
\* bits it took before the bitmap ran out stay occupied and their blocks stay
\* appended to the cluster, in ascending order: every free bit is consumed.
\* With no free bit at all the bitmap and the cluster stay as they were.
C24_OutOfMemoryNoRollback ==
    [][(h.kind = "cw" /\ last'.op = "write") =>
        LET free == (0..(8 * Len(bitmap) - 1)) \ Occupied(bitmap)
            needed == h.cbi - Len(root_cluster) + 1
            got == Len(root_cluster') - Len(root_cluster)
        IN needed > Cardinality(free) =>
            /\ ~last'.ok /\ last'.err = "OutOfMemory" /\ last'.n = 0
            /\ mem' = mem
            /\ h' = h
            /\ Occupied(bitmap') = 0..(8 * Len(bitmap) - 1)
            /\ got = Cardinality(free)
            /\ SubSeq(root_cluster', 1, Len(root_cluster)) = root_cluster
            /\ \A i \in 1..got :
                  /\ root_cluster'[Len(root_cluster) + i] \in free
                  /\ Cardinality({b \in free : b < root_cluster'[Len(root_cluster) + i]})
                        = i - 1
            /\ free = {} => bitmap' = bitmap /\ root_cluster' = root_cluster
    ]_vars

\* C24 witness: an empty cluster, bit 7 alone free, the writer seeked into
\* logical block 1: the write took block 7 and failed.
C24_Witness ==
    /\ last.op = "write" /\ ~last.ok /\ last.err = "OutOfMemory"
    /\ last.pos \div Block_SIZE = 1
    /\ hand = (0..(8 * Len(bitmap) - 1)) \ {7}
    /\ root_cluster = <<7>>
    /\ Occupied(bitmap) = 0..(8 * Len(bitmap) - 1)
    /\ mem = HeapMemory_default

\* ---------------------------------------------------------------------------
\* SpecMemory: a MemoryWriter over an empty HeapMemory, seeked and written to
\* ---------------------------------------------------------------------------

\* offsets at the start of a page, on its last bytes, and in a later page
MemoryOffsets ==
    {0, HEAP_PAGE_SIZE - 2, HEAP_PAGE_SIZE - 1, HEAP_PAGE_SIZE, 2 * HEAP_PAGE_SIZE - 1}

InitMemory ==
    /\ mem = HeapMemory_default
    /\ bitmap = Bitmap_new
    /\ root_cluster = Cluster_default
    /\ entry = Entry_default
    /\ h = NoHandle
    /\ hand = {}
    /\ shadow = [root |-> <<>>, entry |-> <<>>]
    /\ last = NoCall
    /\ ops = MaxMemoryOps

\* memory.writer(), seek(SeekFrom::Start(offset)), one write(buf)
MemoryWrite(offset, buf) ==
    /\ Tick
    /\ \E r \in {MemoryWriter_write(mem, offset, buf)} :
          /\ mem' = r.mem
          /\ last' = [NoCall EXCEPT !.op = "mwrite", !.pos = offset, !.buf = buf,
                                    !.n = r.n]
    /\ UNCHANGED <<bitmap, root_cluster, entry, h, hand, shadow>>

NextMemory == \E offset \in MemoryOffsets, buf \in WriteBufs \cup WriteAllBufs :
                 MemoryWrite(offset, buf)

SpecMemory == InitMemory /\ [][NextMemory]_vars

\* C25: one write of buf at any offset through a MemoryWriter over
\* HeapMemory (whose growth does not fail) stores all of buf and returns
\* buf.len(), a write that spans a page boundary included.
C25_WholeBufferWritten ==
    last.op = "mwrite" =>
        /\ last.n = Len(last.buf)
        /\ \A i \in 1..Len(last.buf) : Byte(mem, last.pos + i - 1) = last.buf[i]

\* the smallest number of blocks that hold n bytes
BlocksFor(n) == (n + Block_SIZE - 1) \div Block_SIZE

\* C26: PREAMBLE_BLOCKS is ceil(bitmap_bytes / 512) + 8, bitmap_bytes being
\* the byte length of the file system's bitmap, MAX_SIZE / 512 / 8.
C26_PreambleBlocksCeil ==
    /\ Len(bitmap) = (MAX_SIZE \div Block_SIZE) \div 8
    /\ FileSystem_preamble_blocks = BlocksFor(Len(bitmap)) + 8

-----------------------------------------------------------------------------
(* canister.rs: read_file. FileSystem::with_file, which finds the entry of   *)
(* the file at the path and hands it to the closure, is not among the        *)
(* sources; the closure of read_file is applied to the entry of a file.      *)

\* Option<i64> as a sequence: <<>> is None, <<v>> is Some(v)
Option_unwrap_or(opt, default) == IF opt = <<>> THEN default ELSE opt[1]

\* a range bound after `if start < 0 { start = size + start }`
FromEnd(size, v) == IF v < 0 THEN size + v ELSE v

\* std::io::Read::read_exact over the EntryReader of a file, from the cursor
\* rd: [err, data]; the subtraction size - offset of EntryReader::read
\* panics or wraps with the build
RECURSIVE File_read_exact(_, _, _, _, _)
File_read_exact(m, file, rd, n, build) ==
    IF n = 0 THEN [err |-> "", data |-> <<>>]
    ELSE Let(EntryReader_read(m, file, rd, n, build), LAMBDA r :
            IF r.status = "panic" THEN [err |-> "panic", data |-> <<>>]
            ELSE IF r.data = <<>> THEN [err |-> "UnexpectedEof", data |-> <<>>]
            ELSE Let(File_read_exact(m, file, r.rd, n - Len(r.data), build),
                     LAMBDA rest :
                        [err |-> rest.err,
                         data |-> IF rest.err = "" THEN r.data \o rest.data
                                  ELSE <<>>]))

\* the closure of read_file on the entry of the file: [err, data]
read_file(m, file, start, end, build) ==
    LET size == file.size
        s == FromEnd(size, Option_unwrap_or(start, 0))
        e == FromEnd(size, Option_unwrap_or(end, size))
    IN IF s > e THEN [err |-> "InvalidInput", data |-> <<>>]
       ELSE File_read_exact(m, file,
                IF s > 0
                THEN [cbi |-> s \div Block_SIZE, off |-> s % Block_SIZE, offset |-> s]
                ELSE [cbi |-> 0, off |-> 0, offset |-> 0],
                e - s, build)

-----------------------------------------------------------------------------
(* SpecFile: one file written through its entry on a new file system, then   *)
(* read by read_file with bounds inside and outside the file                 *)

FileContents == {<<>>, <<72, 101, 108, 108, 111>>, Zeros(Block_SIZE - 1) \o <<7, 9>>}
RangeBounds ==
    {<<>>} \cup {<<v>> : v \in {-7, -5, -2, 0, 2, 5, 6, Block_SIZE - 1, Block_SIZE + 1}}

InitFile ==
    /\ \E c \in FileContents :
          \E w \in {Entry_write_all(FileSystem_new(HeapMemory_default).fs,
                                    Directory_add_file(<<>>, <<97>>)[1], c)} :
             /\ mem = w.fs.mem
             /\ bitmap = w.fs.bitmap
             /\ root_cluster = w.fs.root_cluster
             /\ entry = w.e
             /\ shadow = [root |-> <<>>, entry |-> Store(<<>>, 0, c)]
    /\ h = NoHandle
    /\ hand = {}
    /\ last = NoCall
    /\ ops = MaxFileOps

ReadFile(start, end) ==
    /\ entry.kind = "File"
    /\ Tick
    /\ \E build \in {"debug", "release"} :
          \E r \in {read_file(mem, entry, start, end, build)} :
             last' = [NoCall EXCEPT !.op = "read_file", !.start = start, !.end = end,
                                    !.ok = (r.err = ""), !.err = r.err, !.data = r.data]
    /\ UNCHANGED <<mem, bitmap, root_cluster, entry, h, hand, shadow>>

NextFile == \E start \in RangeBounds, end \in RangeBounds : ReadFile(start, end)

SpecFile == InitFile /\ [][NextFile]_vars

\* the bytes the file holds at logical offsets [s, e)
FileBytes(s, e) ==
    [i \in 1..(e - s) |->
        IF s + i - 1 \in DOMAIN shadow.entry THEN shadow.entry[s + i - 1] ELSE 0]

\* C27: read_file on a file of length size replaces a negative start or end
\* by size + start or size + end, a missing start by 0 and a missing end by
\* size; start > end afterwards gives InvalidInput, otherwise the result is
\* exactly the bytes at logical offsets [start, end) of the file.  A range
\* that is not empty and not inside the file has no such bytes, so no data
\* may come back for it.
C27_ReadFileRange ==
    last.op = "read_file" =>
        LET size == entry.size
            s == FromEnd(size, Option_unwrap_or(last.start, 0))
            e == FromEnd(size, Option_unwrap_or(last.end, size))
        IN IF s > e THEN last.err = "InvalidInput"
           ELSE IF s = e THEN last.err = "" /\ last.data = <<>>
           ELSE IF 0 <= s /\ e <= size
                THEN last.err = "" /\ last.data = FileBytes(s, e)
                ELSE last.err # ""

-----------------------------------------------------------------------------
(* Claims about single calls on the cluster's streams *)

\* the offsets of memory whose byte a step changes
Changed == {o \in DOMAIN mem.data \cup DOMAIN mem'.data : Byte(mem, o) # Byte(mem', o)}

\* the cursor after a call that moved n bytes from (cbi, off)
CursorAfter(n) ==
    IF h.off + n >= Block_SIZE
    THEN h'.cbi = h.cbi + 1 /\ h'.off = 0
    ELSE h'.cbi = h.cbi /\ h'.off = h.off + n

\* C28: one read or write call on a cluster stream moves at most
\* min(buf.len(), 512 - block_offset) bytes, all of them inside the block at
\* the cursor; the cursor advances by the count returned and rolls to
\* (block_index + 1, 0) exactly when block_offset reaches 512; a read with
\* block_index at or past the number of blocks returns 0.
C28_SingleBlockTransfer ==
    [][/\ (last'.op = "write" /\ last'.ok) =>
            LET n == last'.n
                base == root_cluster'[h.cbi + 1] * Block_SIZE + h.off
            IN /\ n <= Min(Len(last'.buf), Block_SIZE - h.off)
               /\ Changed \subseteq {base + i - 1 : i \in 1..n}
               /\ \A i \in 1..n : Byte(mem', base + i - 1) = last'.buf[i]
               /\ CursorAfter(n)
               /\ (h'.off = 0 /\ h'.cbi = h.cbi + 1) <=> (h.off + n = Block_SIZE)
       /\ last'.op = "read" =>
            LET n == Len(last'.data)
            IN /\ n <= Min(last'.n, Block_SIZE - h.off)
               /\ h.cbi >= Len(root_cluster) => n = 0
               /\ n > 0 =>
                    LET base == root_cluster[h.cbi + 1] * Block_SIZE + h.off
                    IN \A i \in 1..n : last'.data[i] = Byte(mem, base + i - 1)
               /\ CursorAfter(n)
               /\ (h'.off = 0 /\ h'.cbi = h.cbi + 1) <=> (h.off + n = Block_SIZE)
               /\ mem' = mem
      ]_vars

\* a write of two bytes at the last byte of a block stored one and rolled;
\* a read did the same
C28_Witness ==
    /\ last.op \in {"write", "read"}
    /\ last.pos % Block_SIZE = Block_SIZE - 1
    /\ IF last.op = "write" THEN Len(last.buf) = 2 /\ last.n = 1 /\ last.ok
       ELSE last.n = 2 /\ Len(last.data) = 1
    /\ h.off = 0
    /\ h.cbi = last.pos \div Block_SIZE + 1

\* the cluster a call of the given name writes through
WrittenCluster(op, root, e) ==
    IF op \in {"write", "write_all"} THEN root ELSE e.cluster

\* C29: in a cluster write that allocates, the bit of every newly allocated
\* block is set and the block is appended to the cluster before a byte goes
\* into the block's extent: every byte a cluster writer changes lies in a
\* block of the cluster whose bit is occupied, the blocks that are new were
\* free before the call, and a call that fails to allocate changes no byte.
C29_AllocateBeforeStore ==
    [][last'.op \in {"write", "write_all", "ewrite", "ewrite_all"} =>
          LET old == WrittenCluster(last'.op, root_cluster, entry)
              new == WrittenCluster(last'.op, root_cluster', entry')
          IN /\ Len(new) >= Len(old)
             /\ SubSeq(new, 1, Len(old)) = old
             /\ \A i \in (Len(old) + 1)..Len(new) :
                   /\ ~Bitmap_index(bitmap, new[i])
                   /\ Bitmap_index(bitmap', new[i])
             /\ \A i \in 0..(8 * Len(bitmap) - 1) :
                   Bitmap_index(bitmap, i) => Bitmap_index(bitmap', i)
             /\ \A o \in Changed :
                   /\ Bitmap_index(bitmap', o \div Block_SIZE)
                   /\ o \div Block_SIZE \in Range(new)
             /\ (last'.op \in {"write", "ewrite"} /\ ~last'.ok) => Changed = {}
      ]_vars

\* the root cluster's writer was seeked one block past the cluster's end and
\* wrote a byte there, into a block allocated by that call
C29_Witness ==
    /\ last.op = "write"
    /\ last.ok
    /\ last.n = 1
    /\ last.pos = Block_SIZE
    /\ ops = MaxOps - 3
    /\ Len(root_cluster) = 2
    /\ Bitmap_index(bitmap, root_cluster[2])
    /\ Byte(mem, root_cluster[2] * Block_SIZE) = last.buf[1]

-----------------------------------------------------------------------------
(* directory.rs: file_with_name_or_create_mut *)

\* the `for` loop: the index of the first entry named name from index i on,
\* 0 when there is none (idx = None), -1 when that entry is a Directory
RECURSIVE Directory_file_index(_, _, _)
Directory_file_index(entries, name, i) ==
    IF i > Len(entries) THEN 0
    ELSE IF entries[i].name = name
         THEN IF entries[i].kind = "Directory" THEN -1 ELSE i
         ELSE Directory_file_index(entries, name, i + 1)

\* (faulty variant) the kind of the entry found is not looked at
Directory_file_with_name_or_create_mut_nokind(entries, name) ==
    Let(Directory_entry_with_name(entries, name), LAMBDA idx :
        IF idx = 0
        THEN [dir |-> Directory_add_file(entries, name), index |-> Len(entries) + 1,
              err |-> ""]
        ELSE [dir |-> entries, index |-> idx, err |-> ""])

\* Directory::file_with_name_or_create_mut: [dir, index, err], index the
\* place of the entry returned, 0 with an error
Directory_file_with_name_or_create_mut(entries, name) ==
    Let(Directory_file_index(entries, name, 1), LAMBDA idx :
        IF idx = -1 THEN [dir |-> entries, index |-> 0, err |-> "Other"]
        ELSE IF idx = 0
        THEN [dir |-> Directory_add_file(entries, name), index |-> Len(entries) + 1,
              err |-> ""]
        ELSE [dir |-> entries, index |-> idx, err |-> ""])

-----------------------------------------------------------------------------
(* SpecEntries: a root directory of a few entries, files and directories,    *)
(* names repeated or not; file_with_name_or_create_mut is called on it       *)
(* inside with_root_directory_mut                                            *)

EntryChoices ==
    {[Entry_default EXCEPT !.kind = k, !.name = n] :
        k \in {"File", "Directory"}, n \in Names}
Directories == UNION {[1..n -> EntryChoices] : n \in 0..MaxEntries}

InitEntries ==
    /\ \E d \in Directories :
          \E w \in {FileSystem_write_root_directory(
                        FileSystem_new(HeapMemory_default).fs, d)} :
             /\ mem = w.fs.mem
             /\ bitmap = w.fs.bitmap
             /\ root_cluster = w.fs.root_cluster
    /\ entry = Entry_default
    /\ h = NoHandle
    /\ hand = {}
    /\ shadow = [root |-> <<>>, entry |-> <<>>]
    /\ last = NoCall
    /\ ops = MaxEntriesOps

\* fs.with_root_directory_mut(|dir, _| dir.file_with_name_or_create_mut(name)),
\* the entry returned being kept by the caller
FileWithNameOrCreate(name) ==
    /\ Tick
    /\ \E d \in {FileSystem_read_root_directory(FS)} :
          /\ d.ok
          /\ \E r \in {Directory_file_with_name_or_create_mut(d.entries, name)} :
                \E w \in {FileSystem_write_root_directory(FS, r.dir)} :
                   /\ mem' = w.fs.mem
                   /\ bitmap' = w.fs.bitmap
                   /\ root_cluster' = w.fs.root_cluster
                   /\ entry' = IF r.err = "" THEN r.dir[r.index] ELSE entry
                   /\ last' = [NoCall EXCEPT !.op = "file_or_create", !.path = <<name>>,
                                             !.n = r.index, !.ok = (r.err = ""),
                                             !.err = r.err]
    /\ h' = NoHandle
    /\ UNCHANGED <<hand, shadow>>

NextEntries == \E name \in Names : FileWithNameOrCreate(name)

SpecEntries == InitEntries /\ [][NextEntries]_vars

\* the root directory's entries in storage, before and after a step
RootEntries == FileSystem_read_root_directory(FS).entries
RootEntriesAfter ==
    FileSystem_read_root_directory(
        [bitmap |-> bitmap', root_cluster |-> root_cluster', mem |-> mem']).entries

\* C30: file_with_name_or_create_mut(name): when the first entry of that name
\* is a Directory the call fails with kind Other and the entries are
\* unchanged; when it is a File the call returns that entry and adds nothing;
\* when there is no entry of that name the call appends exactly one File
\* entry of size 0 with an empty cluster and returns it.
C30_FileOrCreate ==
    [][last'.op = "file_or_create" =>
          LET name == last'.path[1]
              named == {i \in DOMAIN RootEntries : RootEntries[i].name = name}
              first == CHOOSE i \in named : \A j \in named : i <= j
              created == [kind |-> "File", size |-> 0, name |-> name, cluster |-> <<>>]
          IN IF named = {}
             THEN /\ last'.err = ""
                  /\ RootEntriesAfter = Append(RootEntries, created)
                  /\ entry' = created
                  /\ last'.n = Len(RootEntries) + 1
             ELSE IF RootEntries[first].kind = "Directory"
             THEN /\ last'.err = "Other"
                  /\ RootEntriesAfter = RootEntries
             ELSE /\ last'.err = ""
                  /\ RootEntriesAfter = RootEntries
                  /\ entry' = RootEntries[first]
                  /\ last'.n = first
      ]_vars

\* the first call on a directory of MaxEntries entries, where a directory
\* of one name stands before a file of the same name, appended a file of
\* another name and returned it
C30_Witness ==
    /\ last.op = "file_or_create"
    /\ last.err = ""
    /\ ops = MaxEntriesOps - 1
    /\ Len(RootEntries) = MaxEntries + 1
    /\ last.n = Len(RootEntries)
    /\ entry = RootEntries[Len(RootEntries)]
    /\ entry.kind = "File"
    /\ \A i \in 1..MaxEntries : RootEntries[i].name # entry.name
    /\ \E i, j \in 1..MaxEntries :
          /\ i < j
          /\ RootEntries[i].kind = "Directory"
          /\ RootEntries[j].kind = "File"

-----------------------------------------------------------------------------
(* SpecEntrySerde: entries and directories serialized into memory and read   *)
(* back into default values, as the test of serde.rs does with a string      *)

\* "", "a", "é", "€b" and U+1F600
SerdeNames == {<<>>, <<97>>, <<233>>, <<8364, 98>>, <<128512>>}
SerdeSizes == {0, 2147483647}
SerdeEntryClusters == {<<>>, <<9, 10, 11>>, <<11, 3, 4>>, <<2147483647>>}
SerdeEntries ==
    {[kind |-> k, size |-> sz, name |-> n, cluster |-> c] :
        k \in {"File", "Directory"}, sz \in SerdeSizes, n \in SerdeNames,
        c \in SerdeEntryClusters}
SerdePairs ==
    {<<a, b>> : a \in {e \in SerdeEntries : e.size # 0 /\ e.cluster = <<11, 3, 4>>},
                b \in {e \in SerdeEntries : e.size = 0 /\ e.name = <<97>>
                                                /\ e.cluster = <<>>}}
SerdeDirectories == {<<>>} \cup {<<e>> : e \in SerdeEntries} \cup SerdePairs

InitEntrySerde ==
    /\ mem = HeapMemory_default
    /\ bitmap = Bitmap_new
    /\ root_cluster = Cluster_default
    /\ entry = Entry_default
    /\ h = NoHandle
    /\ hand = {}
    /\ shadow = [root |-> <<>>, entry |-> <<>>]
    /\ last = NoCall
    /\ ops = MaxEntrySerdeOps

\* what a serialize call into MemoryWriter::new(memory, 0) leaves behind:
\* last.buf the bytes written, last.n the count returned
Serialized(op, bytes, count, d) ==
    /\ \E w \in {MemoryWriter_write_all(mem, 0, bytes)} :
          /\ mem' = w.mem
          /\ last' = [NoCall EXCEPT !.op = op, !.ok = w.ok, !.buf = bytes,
                                    !.n = count, !.dir = d]
    /\ UNCHANGED <<bitmap, root_cluster, h, hand, shadow>>

\* what a deserialize call from MemoryReader::new(memory, 0) leaves behind:
\* last.data what was decoded, last.n the count returned, last.consumed the
\* reader's position, last.pos the count serialize had returned
Deserialized(op, r, decoded) ==
    /\ last' = [NoCall EXCEPT !.op = op, !.ok = r.ok, !.buf = last.buf,
                              !.pos = last.n, !.dir = last.dir, !.data = decoded,
                              !.n = r.n, !.consumed = r.rd.offset]
    /\ UNCHANGED <<mem, bitmap, root_cluster, entry, h, hand, shadow>>

EntrySerialize(e) ==
    /\ Tick
    /\ entry' = e
    /\ Serialized("entry_serialize", Entry_serialize(e), Entry_serialize_count(e), <<e>>)

EntryDeserialize ==
    /\ last.op = "entry_serialize" /\ last.ok
    /\ Tick
    /\ \E r \in {Entry_deserialize(mem, MemReader)} :
          Deserialized("entry_deserialize", r, <<r.e>>)

DirectorySerialize(d) ==
    /\ Tick
    /\ entry' = entry
    /\ Serialized("directory_serialize", Directory_serialize(d),
                  Directory_serialize_count(d), d)

DirectoryDeserialize ==
    /\ last.op = "directory_serialize" /\ last.ok
    /\ Tick
    /\ \E r \in {Directory_deserialize(mem, MemReader)} :
          Deserialized("directory_deserialize", r, r.entries)

NextEntrySerde ==
    \/ \E e \in SerdeEntries : EntrySerialize(e)
    \/ EntryDeserialize
    \/ \E d \in SerdeDirectories : DirectorySerialize(d)
    \/ DirectoryDeserialize

SpecEntrySerde == InitEntrySerde /\ [][NextEntrySerde]_vars

\* the bytes memory holds at offsets 0..n-1
MemoryPrefix(n) == [i \in 1..n |-> Byte(mem, i - 1)]

\* C31: an Entry or a Directory with names of valid UTF-8, kinds File and
\* Directory, sizes and clusters with indices below 2^31, serialized and
\* deserialized into a default value, comes back equal field by field and
\* in the same order; serialize returns the number of bytes it wrote, and
\* deserialize consumes and returns exactly that number.
C31_EntryRoundTrip ==
    /\ last.op \in {"entry_serialize", "directory_serialize"} =>
          /\ last.ok
          /\ last.n = Len(last.buf)
          /\ MemoryPrefix(last.n) = last.buf
    /\ last.op \in {"entry_deserialize", "directory_deserialize"} =>
          /\ last.ok
          /\ last.data = last.dir
          /\ last.n = last.pos
          /\ last.consumed = last.pos

\* a directory of two entries, one with a name outside ASCII and a cluster
\* of more than one run, was serialized and read back
C31_Witness ==
    /\ last.op = "directory_deserialize"
    /\ last.ok
    /\ Len(last.dir) = 2
    /\ last.data = last.dir
    /\ last.dir[1].name = <<8364, 98>>
    /\ last.dir[1].cluster = <<11, 3, 4>>
    /\ last.dir[1].kind = "Directory"
    /\ last.dir[2].kind = "File"
    /\ last.consumed = Len(last.buf)

-----------------------------------------------------------------------------
(* stable_memory.rs: the file system over StableMemory.  MAX_SIZE is 2^32,   *)
(* which a 32-bit usize cannot hold, so the constants are those of a 64-bit  *)
(* build; the quotients below are exact and avoid the product.               *)

STABLE_PAGE_SIZE == 65536
STABLE_MAX_PAGES == 65536

\* Bitmap::len_for_memory_impl::<StableMemory>(): MAX_SIZE / Block::SIZE / 8
StableMemory_bitmap_len == ((STABLE_PAGE_SIZE \div Block_SIZE) * STABLE_MAX_PAGES) \div 8

\* FileSystem::<StableMemory>::preamble_blocks()
StableMemory_preamble_blocks == StableMemory_bitmap_len \div Block_SIZE + 8

\* the loop of Cluster::serialize that builds the ranges, evaluated on the
\* two halves of the block list: the last range of the left half is the one
\* the loop would extend with the first blocks of the right half
RECURSIVE Cluster_ranges_halves(_)
Cluster_ranges_halves(blocks) ==
    IF Len(blocks) <= 8 THEN Cluster_ranges(blocks, <<>>)
    ELSE LET mid == Len(blocks) \div 2
         IN Let(Cluster_ranges_halves(SubSeq(blocks, 1, mid)), LAMBDA l :
            Let(Cluster_ranges_halves(SubSeq(blocks, mid + 1, Len(blocks))), LAMBDA r :
                IF l[Len(l)].end + 1 = r[1].start
                THEN SubSeq(l, 1, Len(l) - 1)
                        \o <<[start |-> l[Len(l)].start, end |-> r[1].end]>>
                        \o Tail(r)
                ELSE l \o r))

\* the `for range in ranges` loop of Cluster::serialize, on the two halves
RECURSIVE Cluster_serialize_ranges_halves(_)
Cluster_serialize_ranges_halves(ranges) ==
    IF Len(ranges) <= 8 THEN Cluster_serialize_ranges(ranges)
    ELSE LET mid == Len(ranges) \div 2
         IN Cluster_serialize_ranges_halves(SubSeq(ranges, 1, mid))
               \o Cluster_serialize_ranges_halves(SubSeq(ranges, mid + 1, Len(ranges)))

\* Serialize for Cluster, for block lists of a thousand blocks and more
Cluster_serialize_halves(blocks) ==
    Let(Cluster_ranges_halves(blocks), LAMBDA ranges :
        U32_be(Len(ranges)) \o Cluster_serialize_ranges_halves(ranges))

\* FileSystem::persist over StableMemory: [mem, n], n the bytes written from
\* offset 0.  fs.bitmap is the map without its zero bytes at the end; the
\* writer grows the memory by whole pages and stable_write stores every byte.
StableMemory_persist(fs) ==
    Let(Cluster_serialize_halves(fs.root_cluster), LAMBDA descriptor :
        LET len == StableMemory_bitmap_len + Len(descriptor)
            kept == {o \in DOMAIN fs.mem.data : o >= len}
            map == {o \in 0..(Len(fs.bitmap) - 1) : fs.bitmap[o + 1] # 0}
            words == {StableMemory_bitmap_len + i - 1 :
                         i \in {k \in 1..Len(descriptor) : descriptor[k] # 0}}
        IN [mem |-> [pages |-> Max(fs.mem.pages,
                                   (len + STABLE_PAGE_SIZE - 1) \div STABLE_PAGE_SIZE),
                     data |-> [o \in kept \cup map \cup words |->
                                  IF o \in kept THEN fs.mem.data[o]
                                  ELSE IF o \in map THEN fs.bitmap[o + 1]
                                  ELSE descriptor[o - StableMemory_bitmap_len + 1]]],
            n |-> len])

-----------------------------------------------------------------------------
(* SpecStable: a file system over StableMemory whose root directory grew     *)
(* block by block while a file next to it grew as well, so that the blocks   *)
(* of the two alternate; it is persisted                                     *)

\* n blocks, every second one from first on
Alternating(first, n) == [i \in 1..n |-> first + 2 * (i - 1)]

InitStable ==
    /\ \E n \in MinStableRuns..MaxStableRuns :
          /\ root_cluster = Alternating(StableMemory_preamble_blocks, n)
          /\ entry = [kind |-> "File", size |-> n * Block_SIZE, name |-> <<97>>,
                      cluster |-> Alternating(StableMemory_preamble_blocks + 1, n)]
          /\ bitmap = LET bits == StableMemory_preamble_blocks + 2 * n
                       IN [i \in 1..(bits \div 8) |-> 255]
                             \o (IF bits % 8 = 0 THEN <<>> ELSE <<Pow2(bits % 8) - 1>>)
          /\ mem = [pages |-> ((StableMemory_preamble_blocks + 2 * n) * Block_SIZE
                                  + STABLE_PAGE_SIZE - 1) \div STABLE_PAGE_SIZE,
                    data |-> [o \in {StableMemory_preamble_blocks * Block_SIZE + 7} |-> 1]]
    /\ h = NoHandle
    /\ hand = {}
    /\ shadow = [root |-> <<>>, entry |-> <<>>]
    /\ last = NoCall
    /\ ops = 1

StablePersist ==
    /\ Tick
    /\ \E r \in {StableMemory_persist(FS)} :
          /\ mem' = r.mem
          /\ last' = [NoCall EXCEPT !.op = "persist", !.n = r.n]
    /\ UNCHANGED <<bitmap, root_cluster, entry, h, hand, shadow>>

NextStable == StablePersist

SpecStable == InitStable /\ [][NextStable]_vars

\* C32: persist writes only bytes at offsets below PREAMBLE_BLOCKS * 512,
\* however long and fragmented the root cluster is: the bytes written end
\* inside the preamble, and the first block of the root cluster still holds
\* the root directory's length.
C32_PersistInsidePreamble ==
    last.op = "persist" =>
        /\ last.n <= StableMemory_preamble_blocks * Block_SIZE
        /\ Byte(mem, StableMemory_preamble_blocks * Block_SIZE + 7) = 1

-----------------------------------------------------------------------------
(* SpecOpen: FileSystem::open on a memory that no file system was persisted  *)
(* to: no page at all, or one page of bytes where the root cluster's         *)
(* descriptor would be                                                       *)

\* bytes at the descriptor's count word and its first two words; the first
\* word may carry the flag of a range
DescriptorBytes ==
    {[o \in D |-> IF o = Bitmap_len_for_memory_impl + 4 THEN 128 ELSE v] :
        D \in SUBSET {Bitmap_len_for_memory_impl + 3, Bitmap_len_for_memory_impl + 4,
                      Bitmap_len_for_memory_impl + 7, Bitmap_len_for_memory_impl + 11},
        v \in {1, 2, 5, 9}}

InitOpen ==
    /\ mem \in {HeapMemory_default}
                  \cup {[pages |-> 1, data |-> d] : d \in DescriptorBytes}
    /\ bitmap = Bitmap_new
    /\ root_cluster = Cluster_default
    /\ entry = Entry_default
    /\ h = NoHandle
    /\ hand = {}
    /\ shadow = [root |-> <<>>, entry |-> <<>>]
    /\ last = NoCall
    /\ ops = MaxOpenOps

\* a FileSystem value borrows the memory: open returned it and it has not
\* been dropped
Opened == (last.op = "open" /\ last.ok) \/ last.op \in {"persist", "restore"}

\* FileSystem::open(&mut memory): when restore fails the value being
\* restored is dropped, and Drop for FileSystem persists it
Open ==
    /\ ~Opened
    /\ Tick
    /\ \E r \in {FileSystem_open(mem)} :
          /\ bitmap' = r.fs.bitmap
          /\ root_cluster' = r.fs.root_cluster
          /\ mem' = IF r.ok THEN r.fs.mem ELSE FileSystem_persist(r.fs)
          /\ last' = [NoCall EXCEPT !.op = "open", !.ok = r.ok,
                                    !.err = IF r.ok THEN "" ELSE "UnexpectedEof"]
    /\ h' = NoHandle
    /\ UNCHANGED <<entry, hand, shadow>>

\* the file system that open returned is dropped
DropFileSystem ==
    /\ Opened
    /\ Tick
    /\ mem' = FileSystem_persist(FS)
    /\ last' = [NoCall EXCEPT !.op = "drop"]
    /\ h' = NoHandle
    /\ UNCHANGED <<bitmap, root_cluster, entry, hand, shadow>>

\* fs.persist() on the opened file system
PersistOpened == Opened /\ Persist

\* fs.restore() on the opened file system: the bitmap is read over the one
\* in memory, the descriptor's blocks are pushed onto the root cluster
Restore ==
    /\ Opened
    /\ Tick
    /\ \E r \in {FileSystem_restore(FS)} :
          /\ bitmap' = r.fs.bitmap
          /\ root_cluster' = r.fs.root_cluster
          /\ last' = [NoCall EXCEPT !.op = "restore", !.ok = r.ok,
                                    !.err = IF r.ok THEN "" ELSE "UnexpectedEof"]
    /\ h' = NoHandle
    /\ UNCHANGED <<mem, entry, hand, shadow>>

NextOpen ==
    \/ Open
    \/ DropFileSystem
    \/ PersistOpened
    \/ Restore

SpecOpen == InitOpen /\ [][NextOpen]_vars

\* C33: when open(memory) fails because restore cannot decode a preamble,
\* the backing store is left as it was: the same number of pages, the same
\* bytes.
C33_FailedOpenLeavesMemory ==
    [][(last'.op = "open" /\ ~last'.ok) => mem' = mem]_vars

\* C34: persist() followed by restore() on the same file system, whose root
\* cluster is not empty, leaves the bitmap and the root cluster of the value
\* as they were before the two calls.
C34_PersistRestore ==
    [][(last.op = "persist" /\ last'.op = "restore" /\ root_cluster /= <<>>)
          => (last'.ok /\ bitmap' = bitmap /\ root_cluster' = root_cluster)]_vars

\* ---------------------------------------------------------------------------
\* with_directory_mut with a callback that fails
\* ---------------------------------------------------------------------------

\* |dir, fs| { dir.add_file(name).write_to_file_system(fs).write_all(content)?;
\*             Err(io::ErrorKind::InvalidData.into()) }
FailingClosures == {[op |-> "add_file_err", name |-> n, content |-> c] :
                       n \in Names, c \in Contents}

NextCallback ==
    \/ \E path \in Paths \ {<<>>} : MakeDirectoryRecursive(path)
    \/ \E path \in Paths, f \in FailingClosures : WithDirectoryMut(path, f)

SpecCallback == InitDir /\ [][NextCallback]_vars

\* C35: when the callback of with_directory_mut returns an error, the call
\* returns that error; no directory below the root on the path is written
\* back (each reads as it did before the call); the root directory is written
\* once, after the callback, and reads back as the directory in memory: for the
\* empty path the root with the entry the callback added and the bytes it
\* wrote, for a longer path the root as it was.
C35_CallbackError ==
    [][(/\ last'.op = "with_directory_mut"
        /\ last'.log # <<>>
        /\ last'.log[1] = Invoked
        /\ last'.f.op = "add_file_err") =>
        \E path \in {last'.path}, f \in {last'.f}, log \in {last'.log},
           now \in {[bitmap |-> bitmap', root_cluster |-> root_cluster', mem |-> mem']} :
        \E before \in {FileSystem_with_directory(FS, path)},
           after \in {FileSystem_with_directory(now, path)},
           root \in {FileSystem_read_root_directory(now)} :
           /\ last'.err = "InvalidData"
           /\ Len(log) = 2
           /\ log[2].ev = "write_root_directory"
           /\ root.ok /\ Directory_serialize(root.entries) = log[2].bytes
           /\ before.err = "" /\ after.err = ""
           /\ IF path = <<>>
              THEN /\ Len(after.dir) = Len(before.dir) + 1
                   /\ \A i \in DOMAIN before.dir : after.dir[i] = before.dir[i]
                   /\ after.dir[Len(after.dir)].name = f.name
                   /\ FileHolds(now, after.dir[Len(after.dir)], f.content)
              ELSE /\ root.entries = RootEntries
                   /\ \A k \in 1..Len(path) :
                         FileSystem_with_directory(now, SubSeq(path, 1, k)).dir
                            = FileSystem_with_directory(FS, SubSeq(path, 1, k)).dir
    ]_vars

\* C35 witness: the callback failed in a/b after adding a file there: only
\* the root directory was written after it.
C35_Witness ==
    /\ last.op = "with_directory_mut"
    /\ last.path = <<<<97>>, <<98>>>>
    /\ last.f.op = "add_file_err"
    /\ last.err = "InvalidData"
    /\ last.log = <<Invoked, WroteRoot(RootEntries)>>
    /\ \E d \in {FileSystem_with_directory(FS, last.path)} :
          d.err = "" /\ Directory_entry_with_name(d.dir, last.f.name) = 0

\* ---------------------------------------------------------------------------
\* Writes through one cluster and reads through another
\* ---------------------------------------------------------------------------

\* what a reader of the cluster returns for each of its blocks, read whole
\* from the block's start
ReadThrough(m, blocks) ==
    [cbi \in 0..(Len(blocks) - 1) |->
        ClusterReader_read(m, blocks, cbi, 0, Block_SIZE).data]

\* every byte the reader returned from m is returned unchanged from n, block
\* by block (the memory may have grown under a block's unwritten tail)
SameReadable(m, n, blocks) ==
    \E before \in {ReadThrough(m, blocks)}, after \in {ReadThrough(n, blocks)} :
       \A cbi \in DOMAIN before :
          /\ Len(before[cbi]) <= Len(after[cbi])
          /\ SubSeq(after[cbi], 1, Len(before[cbi])) = before[cbi]

\* C36: after init, a write through the writer of one cluster (the root's or
\* an entry's), allocating or not, changes no byte that the reader of another
\* cluster returns: every byte readable in a block of the other cluster reads
\* as before the call, and the other cluster keeps its blocks.
C36_OtherClusterUntouched ==
    [][/\ last'.op \in {"write", "write_all"} =>
             /\ entry' = entry
             /\ SameReadable(mem, mem', entry.cluster)
       /\ last'.op \in {"ewrite", "ewrite_all"} =>
             /\ root_cluster' = root_cluster
             /\ SameReadable(mem, mem', root_cluster)
      ]_vars

\* C36 witness: the entry's writer allocated a block and stored bytes in it
\* while the root cluster held two blocks, one of them past the root
\* directory's block.
C36_Witness ==
    /\ last.op = "ewrite_all"
    /\ last.ok
    /\ Len(root_cluster) = 2
    /\ Len(entry.cluster) = 1
    /\ entry.cluster[1] > root_cluster[2]
    /\ Byte(mem, entry.cluster[1] * Block_SIZE) = last.buf[1]
    /\ Byte(mem, root_cluster[2] * Block_SIZE + Block_SIZE - 1) = 65

\* ---------------------------------------------------------------------------
\* write_all over a cluster writer, one write call at a time
\* ---------------------------------------------------------------------------

\* the buffers handed to write_all: within a block, and longer than a block
WriteAllLoopBufs == {<<72, 101, 108>>, Zeros(Block_SIZE + MaxExtraLen)}

\* a call of write_all has not returned: last.data is the buffer it was
\* called with, last.buf the part not yet written, last.n the bytes stored
WriteAllRunning == last.op = "write_all_call"

\* w.write_all(buf) is called: std::io::Write::write_all enters its
\* `while !buf.is_empty()` loop, and returns Ok(()) at once on an empty buffer
WriteAllCall(buf) ==
    /\ ~WriteAllRunning
    /\ h.kind = "cw"
    /\ Tick
    /\ last' = [NoCall EXCEPT !.op = "write_all_call", !.pos = CursorPos(h),
                              !.data = buf, !.buf = buf]
    /\ UNCHANGED <<mem, bitmap, root_cluster, entry, h, hand, shadow>>

\* a turn of the loop can be taken: a write call returns a count or an
\* error, and either one changes the record of the call
WriteAllStepEnabled == WriteAllRunning /\ last.buf # <<>>

\* one turn of the loop of write_all: self.write(buf), then Ok(0) is
\* WriteZero, Ok(n) drops the n bytes written from buf, Err(e) is returned
WriteAllStep ==
    /\ WriteAllStepEnabled
    /\ \E r \in {ClusterWriter_write(RootW, last.buf)} :
          /\ bitmap' = r.w.bitmap
          /\ mem' = r.w.mem
          /\ root_cluster' = r.w.blocks
          /\ h' = [h EXCEPT !.cbi = r.w.cbi, !.off = r.w.off]
          /\ shadow' = [shadow EXCEPT
                           !.root = Recorded(@, CursorPos(h), last.buf, r.n)]
          /\ last' = IF ~r.ok
                     THEN [last EXCEPT !.op = "write_all_return", !.ok = FALSE,
                                       !.err = r.err]
                     ELSE IF r.n = 0
                     THEN [last EXCEPT !.op = "write_all_return", !.ok = FALSE,
                                       !.err = "WriteZero"]
                     ELSE [last EXCEPT !.buf = SubSeq(@, r.n + 1, Len(@)),
                                       !.n = @ + r.n]
    /\ UNCHANGED <<entry, hand, ops>>

\* the loop of write_all ends with Ok(()) when buf is empty
WriteAllReturn ==
    /\ WriteAllRunning
    /\ last.buf = <<>>
    /\ last' = [last EXCEPT !.op = "write_all_return", !.ok = TRUE]
    /\ UNCHANGED <<mem, bitmap, root_cluster, entry, h, hand, shadow, ops>>

NextWriteAll ==
    \/ ~WriteAllRunning /\ RootWriter
    \/ \E pos \in SeekFroms : ~WriteAllRunning /\ ClusterSeek(pos)
    \/ \E buf \in WriteAllLoopBufs : WriteAllCall(buf)
    \/ WriteAllStep
    \/ WriteAllReturn

\* the loop of write_all runs in the caller's thread until it returns: weak
\* fairness of its exit and of its turn, the latter, WF_vars(WriteAllStep),
\* written out with the turn's enabling condition
SpecWriteAll ==
    /\ InitFull
    /\ [][NextWriteAll]_vars
    /\ WF_vars(WriteAllReturn)
    /\ ([]<>(~WriteAllStepEnabled) \/ []<><<WriteAllStep>>_vars)

\* a write call inside write_all stored at least one byte of the buffer at
\* the cursor and moved the cursor past it, or failed with OutOfMemory
WriteCallProgress ==
    (WriteAllRunning /\ last.buf # <<>> /\ last' # last) =>
        \/ /\ last'.op = "write_all_return"
           /\ ~last'.ok
           /\ last'.err = "OutOfMemory"
           /\ mem' = mem
        \/ \E n \in {last'.n - last.n} :
              /\ last'.op = "write_all_call"
              /\ n >= 1
              /\ last'.buf = SubSeq(last.buf, n + 1, Len(last.buf))
              /\ CursorPos(h') = CursorPos(h) + n
              /\ \A i \in 1..n :
                    Byte(mem', Cluster_physical(root_cluster', h.cbi, h.off) + i - 1)
                       = last.buf[i]

\* C37: write_all of n bytes through a cluster writer over HeapMemory
\* terminates: every write call with a non-empty buffer stores at least one
\* byte and advances the cursor or fails with OutOfMemory, and every call of
\* write_all returns, with all n bytes stored or with an error.
C37_WriteAllTerminates ==
    /\ [][WriteCallProgress]_vars
    /\ WriteAllRunning ~>
          /\ last.op = "write_all_return"
          /\ IF last.ok THEN last.n = Len(last.data) /\ last.buf = <<>>
             ELSE last.err = "OutOfMemory"

\* C37 witness: write_all of more than a block's bytes from the last byte of
\* a block returned Ok: its write calls filled that block and the whole next
\* one, and the cursor is two blocks further.
C37_Witness ==
    /\ last.op = "write_all_return"
    /\ last.ok
    /\ last.pos % Block_SIZE = Block_SIZE - 1
    /\ last.n = Block_SIZE + MaxExtraLen
    /\ CursorPos(h) = last.pos + last.n
    /\ h.cbi = last.pos \div Block_SIZE + 2

=============================================================================
